---- MODULE Spec2Model ----
(***************************************************************************)
(* A model of quark-db's core containers.                                  *)
(*                                                                         *)
(*   SortedSet (src/core/dataStructures/sortedSet.ts): an AVL tree with    *)
(*   stored node heights, a size counter and a comparator.                 *)
(*   HashMap: a key -> {value, ex} table with lazy expiry against the      *)
(*   clock Date.now().                                                     *)
(*   Set: unique elements kept as the keys of a HashMap, with a size       *)
(*   counter and the set-algebra operations.                               *)
(*   Parser and RespSerializer (src/parser/commandParser.ts): the RESP     *)
(*   wire codec, over strings kept as sequences of characters.             *)
(*   List: a singly linked list with a cached tail and a length.           *)
(*   String: a byte buffer with bit reads and writes.                      *)
(*   CommandExecutor and the keyspace commands (src/core/commands):        *)
(*   handlers over GlobalMap, the shared HashMap.                          *)
(***************************************************************************)
EXTENDS Integers, Sequences, FiniteSets, TLC

\* ------------------------------------------------------------------ bounds
\* SortedSet elements are 1..MaxVal.
MaxVal == 5

Values == 1..MaxVal

\* The clock advances at most MaxTicks times.
MaxTicks == 1

\* Set elements are 1..MaxElem.
MaxElem == 2

Elems == 1..MaxElem

\* the Set instances
SetNames == {"A", "B"}

\* Codec inputs: strings of at most MaxStrLen characters, arrays of at most
\* MaxArrLen elements, Maps of at most MaxMapLen pairs, and numeric payloads
\* of at most MaxTextLen characters, and Error messages of at most
\* MaxMsgLen characters.
MaxStrLen == 2
MaxArrLen == 2
MaxMapLen == 2
MaxTextLen == 3
MaxMsgLen == 11

\* A List holds at most MaxListLen elements.
MaxListLen == 3

\* A String holds at most MaxBytes bytes; a byte has BitsPerByte bits.
MaxBytes == 2
BitsPerByte == 8

\* Date.now() when the HashMap is constructed, and milliseconds per second
StartTime == 1000
MsPerSecond == 1000

\* HashMap keys and values (V is a type parameter: a string s is <<s>>, and
\* null is a value too); the ttl/ex arguments passed to setex and expireat
Keys == {"k", "j"}
Vals == {<<"v">>, <<>>}
TtlArgs == {0, 1}
SetexArgs == {0, 1, StartTime + 2}
TickSteps == {1, MsPerSecond}

\* ------------------------------------------------------------------ state
VARIABLES
    root,        \* SortedSet.root: the AVL tree (NULL or a node)
    _size,       \* SortedSet._size
    cmpKind,     \* which comparator the constructor installed
    members,     \* the values added and not since deleted or cleared
    ss_op,       \* the last SortedSet call: its name, arguments and result
    map,         \* HashMap.map: key -> [value, ex]
    now,         \* Date.now(), in milliseconds
    ticks,       \* how many times the clock has advanced
    written,     \* per key, the last call that wrote its entry, and when
    hm_op,       \* the last HashMap call: its name, arguments and result
    sets,        \* per Set instance: its map (the keys of its HashMap, in
                 \* insertion order, each with its item) and its _size
    added,       \* per Set instance: the values added and not since removed
    set_op,      \* the last Set call: its name, instance, argument and result
    sent,        \* what was last put on the wire: a value given to serialise,
                 \* or the frame a client wrote
    wire,        \* the text on the wire
    rp_op,       \* the last codec call: its name and how it ended
    calls,       \* per connection: its call of CommandExecutor.execute (none,
                 \* awaiting the handler's promise, or settled) with the
                 \* command and the outcome
    started,     \* the keyspace before the first command, and the commands
                 \* submitted concurrently, in the order of their calls
    list,        \* a List: head, tail, _length, and the nodes on the heap
    list_op,     \* the last List call: its name, arguments and result
    string,      \* a String: buffer (its bytes) and _length
    string_op    \* the last String call: its name, arguments and result

ssVars == <<root, _size, cmpKind, members, ss_op>>
hmVars == <<map, now, ticks, written, hm_op>>
setVars == <<sets, added, set_op>>
rpVars == <<sent, wire, rp_op>>
cmdVars == <<calls, started>>
listVars == <<list, list_op>>
strVars == <<string, string_op>>
vars == <<root, _size, cmpKind, members, ss_op, map, now, ticks, written, hm_op,
          sets, added, set_op, sent, wire, rp_op, calls, started, list, list_op,
          string, string_op>>

\* ------------------------------------------------------------ AVL nodes
\* null, and JavaScript's undefined as a query result
NULL == <<>>
UNDEFINED == <<>>

\* class AVLNode: value, left, right, height (height 1 on construction)
Node(v, l, r, h) == <<v, l, r, h>>
AVLNode(v) == Node(v, NULL, NULL, 1)
ValueOf(n) == n[1]
LeftOf(n) == n[2]
RightOf(n) == n[3]
HeightOf(n) == n[4]

Max(a, b) == IF a >= b THEN a ELSE b

\* defaultCompare, and a custom comparator (a, b) => b - a given to the
\* constructor
defaultCompare(a, b) == IF a < b THEN -1 ELSE IF a > b THEN 1 ELSE 0

comparator(a, b) == IF cmpKind = "default" THEN defaultCompare(a, b) ELSE b - a

\* node.left ? node.left.height : 0
ChildHeight(c) == IF c = NULL THEN 0 ELSE HeightOf(c)

updateHeight(node) ==
    Node(ValueOf(node), LeftOf(node), RightOf(node),
         Max(ChildHeight(LeftOf(node)), ChildHeight(RightOf(node))) + 1)

getBalanceFactor(node) == ChildHeight(LeftOf(node)) - ChildHeight(RightOf(node))

\* rotateRight leaving y's stored height as it was before the rotation
rotateRightStaleHeight(y) ==
    LET x == LeftOf(y)
        T2 == RightOf(x)
        y2 == Node(ValueOf(y), T2, RightOf(y), HeightOf(y))
    IN  updateHeight(Node(ValueOf(x), LeftOf(x), y2, HeightOf(x)))

\* x = y.left; T2 = x.right; x.right = y; y.left = T2; heights of y, then x
rotateRight(y) ==
    LET x == LeftOf(y)
        T2 == RightOf(x)
        y2 == updateHeight(Node(ValueOf(y), T2, RightOf(y), HeightOf(y)))
    IN  updateHeight(Node(ValueOf(x), LeftOf(x), y2, HeightOf(x)))

\* y = x.right; T2 = y.left; y.left = x; x.right = T2; heights of x, then y
rotateLeft(x) ==
    LET y == RightOf(x)
        T2 == LeftOf(y)
        x2 == updateHeight(Node(ValueOf(x), LeftOf(x), T2, HeightOf(x)))
    IN  updateHeight(Node(ValueOf(y), x2, RightOf(y), HeightOf(y)))

balance(node) ==
    LET balanceFactor == getBalanceFactor(node) IN
    IF balanceFactor > 1 THEN
        IF getBalanceFactor(LeftOf(node)) < 0
        THEN rotateRight(Node(ValueOf(node), rotateLeft(LeftOf(node)),
                              RightOf(node), HeightOf(node)))
        ELSE rotateRight(node)
    ELSE IF balanceFactor < -1 THEN
        IF getBalanceFactor(RightOf(node)) > 0
        THEN rotateLeft(Node(ValueOf(node), LeftOf(node),
                             rotateRight(RightOf(node)), HeightOf(node)))
        ELSE rotateLeft(node)
    ELSE node

\* insertNode returns <<new subtree, added>>
RECURSIVE insertNode(_, _)
insertNode(node, value) ==
    IF node = NULL THEN <<AVLNode(value), TRUE>>
    ELSE LET cmp == comparator(value, ValueOf(node)) IN
         IF cmp = 0 THEN <<node, FALSE>>
         ELSE LET sub == IF cmp < 0 THEN insertNode(LeftOf(node), value)
                                    ELSE insertNode(RightOf(node), value)
                  linked == IF cmp < 0
                            THEN Node(ValueOf(node), sub[1], RightOf(node), HeightOf(node))
                            ELSE Node(ValueOf(node), LeftOf(node), sub[1], HeightOf(node))
              IN  IF sub[2] THEN <<balance(updateHeight(linked)), TRUE>>
                            ELSE <<linked, FALSE>>

\* findMinNode without the walk to the leftmost node
findMinNodeNoWalk(node) == node

RECURSIVE findMinNode(_)
findMinNode(node) == IF LeftOf(node) # NULL THEN findMinNode(LeftOf(node)) ELSE node

\* removeNode returns <<new subtree, removed>>
RECURSIVE removeNode(_, _)
removeNode(node, value) ==
    IF node = NULL THEN <<NULL, FALSE>>
    ELSE LET cmp == comparator(value, ValueOf(node)) IN
         IF cmp < 0 THEN
             LET sub == removeNode(LeftOf(node), value)
                 linked == Node(ValueOf(node), sub[1], RightOf(node), HeightOf(node))
             IN  IF sub[2] THEN <<balance(updateHeight(linked)), TRUE>>
                           ELSE <<linked, FALSE>>
         ELSE IF cmp > 0 THEN
             LET sub == removeNode(RightOf(node), value)
                 linked == Node(ValueOf(node), LeftOf(node), sub[1], HeightOf(node))
             IN  IF sub[2] THEN <<balance(updateHeight(linked)), TRUE>>
                           ELSE <<linked, FALSE>>
         ELSE IF LeftOf(node) = NULL /\ RightOf(node) = NULL THEN <<NULL, TRUE>>
         ELSE IF LeftOf(node) = NULL THEN <<RightOf(node), TRUE>>
         ELSE IF RightOf(node) = NULL THEN <<LeftOf(node), TRUE>>
         ELSE LET successor == findMinNode(RightOf(node))
                  sub == removeNode(RightOf(node), ValueOf(successor))
                  linked == Node(ValueOf(successor), LeftOf(node), sub[1], HeightOf(node))
              IN  <<balance(updateHeight(linked)), TRUE>>

RECURSIVE findNode(_, _)
findNode(node, value) ==
    IF node = NULL THEN NULL
    ELSE LET cmp == comparator(value, ValueOf(node)) IN
         IF cmp = 0 THEN node
         ELSE IF cmp < 0 THEN findNode(LeftOf(node), value)
         ELSE findNode(RightOf(node), value)

RECURSIVE inOrderTraversal(_)
inOrderTraversal(node) ==
    IF node = NULL THEN <<>>
    ELSE inOrderTraversal(LeftOf(node)) \o <<ValueOf(node)>> \o inOrderTraversal(RightOf(node))

\* rangeTraversal with the upper bound taken as exclusive
RECURSIVE rangeTraversalExclusive(_, _, _)
rangeTraversalExclusive(node, fromValue, toValue) ==
    IF node = NULL THEN <<>>
    ELSE LET cmpFrom == comparator(fromValue, ValueOf(node))
             cmpTo == comparator(toValue, ValueOf(node))
         IN  (IF cmpFrom < 0 THEN rangeTraversalExclusive(LeftOf(node), fromValue, toValue)
                             ELSE <<>>)
             \o (IF cmpFrom <= 0 /\ cmpTo > 0 THEN <<ValueOf(node)>> ELSE <<>>)
             \o (IF cmpTo > 0 THEN rangeTraversalExclusive(RightOf(node), fromValue, toValue)
                              ELSE <<>>)

RECURSIVE rangeTraversal(_, _, _)
rangeTraversal(node, fromValue, toValue) ==
    IF node = NULL THEN <<>>
    ELSE LET cmpFrom == comparator(fromValue, ValueOf(node))
             cmpTo == comparator(toValue, ValueOf(node))
         IN  (IF cmpFrom < 0 THEN rangeTraversal(LeftOf(node), fromValue, toValue) ELSE <<>>)
             \o (IF cmpFrom <= 0 /\ cmpTo >= 0 THEN <<ValueOf(node)>> ELSE <<>>)
             \o (IF cmpTo > 0 THEN rangeTraversal(RightOf(node), fromValue, toValue) ELSE <<>>)

\* the while loop of ceiling, from node `current` with candidate `result`
RECURSIVE ceilingFrom(_, _, _)
ceilingFrom(current, value, result) ==
    IF current = NULL THEN result
    ELSE LET cmp == comparator(value, ValueOf(current)) IN
         IF cmp = 0 THEN <<ValueOf(current)>>
         ELSE IF cmp < 0 THEN ceilingFrom(LeftOf(current), value, <<ValueOf(current)>>)
         ELSE ceilingFrom(RightOf(current), value, result)

\* floor remembering the candidate on the wrong branch
RECURSIVE floorFromWrongBranch(_, _, _)
floorFromWrongBranch(current, value, result) ==
    IF current = NULL THEN result
    ELSE LET cmp == comparator(value, ValueOf(current)) IN
         IF cmp = 0 THEN <<ValueOf(current)>>
         ELSE IF cmp < 0 THEN floorFromWrongBranch(LeftOf(current), value, <<ValueOf(current)>>)
         ELSE floorFromWrongBranch(RightOf(current), value, result)

\* the while loop of floor
RECURSIVE floorFrom(_, _, _)
floorFrom(current, value, result) ==
    IF current = NULL THEN result
    ELSE LET cmp == comparator(value, ValueOf(current)) IN
         IF cmp = 0 THEN <<ValueOf(current)>>
         ELSE IF cmp < 0 THEN floorFrom(LeftOf(current), value, result)
         ELSE floorFrom(RightOf(current), value, <<ValueOf(current)>>)

\* A query result is <<x>> for the element x, UNDEFINED for undefined.
ceiling(value) == ceilingFrom(root, value, UNDEFINED)
floor(value) == floorFrom(root, value, UNDEFINED)
range(fromValue, toValue) == rangeTraversal(root, fromValue, toValue)
has(value) == findNode(root, value) # NULL
toArray == inOrderTraversal(root)
size == _size

\* --------------------------------------------------- SortedSet operations
SSCall(name, a, b, ret) == [name |-> name, a |-> a, b |-> b, ret |-> ret]

\* add counting the element whether or not it was inserted
AddAlwaysCounts(value) ==
    LET r == insertNode(root, value) IN
    /\ root' = r[1]
    /\ _size' = _size + 1
    /\ members' = members \cup {value}
    /\ ss_op' = SSCall("add", value, 0, r[2])
    /\ UNCHANGED <<cmpKind, hmVars, setVars, rpVars, cmdVars, listVars, strVars>>

Add(value) ==
    LET r == insertNode(root, value) IN
    /\ root' = r[1]
    /\ _size' = IF r[2] THEN _size + 1 ELSE _size
    /\ members' = members \cup {value}
    /\ ss_op' = SSCall("add", value, 0, r[2])
    /\ UNCHANGED <<cmpKind, hmVars, setVars, rpVars, cmdVars, listVars, strVars>>

\* delete reporting success whether or not the value was found
DeleteAlwaysTrue(value) ==
    LET r == removeNode(root, value) IN
    /\ root' = r[1]
    /\ _size' = IF r[2] THEN _size - 1 ELSE _size
    /\ members' = members \ {value}
    /\ ss_op' = SSCall("delete", value, 0, TRUE)
    /\ UNCHANGED <<cmpKind, hmVars, setVars, rpVars, cmdVars, listVars, strVars>>

Delete(value) ==
    LET r == removeNode(root, value) IN
    /\ root' = r[1]
    /\ _size' = IF r[2] THEN _size - 1 ELSE _size
    /\ members' = members \ {value}
    /\ ss_op' = SSCall("delete", value, 0, r[2])
    /\ UNCHANGED <<cmpKind, hmVars, setVars, rpVars, cmdVars, listVars, strVars>>

Clear ==
    /\ root' = NULL
    /\ _size' = 0
    /\ members' = {}
    /\ ss_op' = SSCall("clear", 0, 0, UNDEFINED)
    /\ UNCHANGED <<cmpKind, hmVars, setVars, rpVars, cmdVars, listVars, strVars>>

Has(value) ==
    /\ ss_op' = SSCall("has", value, 0, has(value))
    /\ UNCHANGED <<root, _size, cmpKind, members, hmVars, setVars, rpVars, cmdVars, listVars, strVars>>

Ceiling(value) ==
    /\ ss_op' = SSCall("ceiling", value, 0, ceiling(value))
    /\ UNCHANGED <<root, _size, cmpKind, members, hmVars, setVars, rpVars, cmdVars, listVars, strVars>>

Floor(value) ==
    /\ ss_op' = SSCall("floor", value, 0, floor(value))
    /\ UNCHANGED <<root, _size, cmpKind, members, hmVars, setVars, rpVars, cmdVars, listVars, strVars>>

Range(fromValue, toValue) ==
    /\ ss_op' = SSCall("range", fromValue, toValue, range(fromValue, toValue))
    /\ UNCHANGED <<root, _size, cmpKind, members, hmVars, setVars, rpVars, cmdVars, listVars, strVars>>

\* ---------------------------------------------------------------- HashMap
\* interface HashMapItem: value, and ex (NULL for null, <<n>> for the number n)
HashMapItem(value, ex) == [value |-> value, ex |-> ex]

EmptyMap == [k \in {} |-> NULL]

\* Map.set and Map.delete on this.map
MapSet(m, key, item) == [k \in DOMAIN m \cup {key} |-> IF k = key THEN item ELSE m[k]]
MapDelete(m, key) == [k \in DOMAIN m \ {key} |-> m[k]]

\* the test `item.ex && item.ex < Date.now()`: null and 0 are both falsy
Expired(item, t) == item.ex # NULL /\ item.ex[1] # 0 /\ item.ex[1] < t

\* get(key): the stored value, or NULL for null
get(key) ==
    IF key \notin DOMAIN map THEN NULL
    ELSE IF Expired(map[key], now) THEN NULL
    ELSE map[key].value

mapAfterGetNoSweep(key) == map

\* the table after get(key): an expired entry is deleted
mapAfterGet(key) ==
    IF key \in DOMAIN map /\ Expired(map[key], now) THEN MapDelete(map, key) ELSE map

HMCall(name, key, value, ex, ret) ==
    [name |-> name, key |-> key, value |-> value, ex |-> ex, ret |-> ret]

\* the record of a call that wrote key's entry at the current time
Wrote(name, key, value, ttl) ==
    [k \in DOMAIN written \cup {key} |->
        IF k = key THEN [name |-> name, value |-> value, ttl |-> ttl, at |-> now]
        ELSE written[k]]

HMSet(key, value) ==
    /\ map' = MapSet(map, key, HashMapItem(value, NULL))
    /\ written' = Wrote("set", key, value, 0)
    /\ hm_op' = HMCall("set", key, value, 0, UNDEFINED)
    /\ UNCHANGED <<now, ticks, ssVars, setVars, rpVars, cmdVars, listVars, strVars>>

HMSetex(key, value, ex) ==
    /\ map' = MapSet(map, key, HashMapItem(value, <<ex>>))
    /\ written' = Wrote("setex", key, value, ex)
    /\ hm_op' = HMCall("setex", key, value, ex, UNDEFINED)
    /\ UNCHANGED <<now, ticks, ssVars, setVars, rpVars, cmdVars, listVars, strVars>>

HMGet(key) ==
    /\ map' = mapAfterGet(key)
    /\ hm_op' = HMCall("get", key, "", 0, get(key))
    /\ UNCHANGED <<now, ticks, written, ssVars, setVars, rpVars, cmdVars, listVars, strVars>>

HMDelete(key) ==
    /\ map' = MapDelete(map, key)
    /\ written' = [k \in DOMAIN written \ {key} |-> written[k]]
    /\ hm_op' = HMCall("delete", key, "", 0, key \in DOMAIN map)
    /\ UNCHANGED <<now, ticks, ssVars, setVars, rpVars, cmdVars, listVars, strVars>>

\* expireat(key, ex): on a missing key map.get(key) is undefined and the
\* assignment to its ex throws a TypeError
HMExpireat(key, ex) ==
    IF key \in DOMAIN map
    THEN /\ map' = MapSet(map, key, HashMapItem(map[key].value, <<ex + now>>))
         /\ written' = Wrote("expireat", key, map[key].value, ex)
         /\ hm_op' = HMCall("expireat", key, "", ex, UNDEFINED)
         /\ UNCHANGED <<now, ticks, ssVars, setVars, rpVars, cmdVars, listVars, strVars>>
    ELSE /\ hm_op' = HMCall("expireat", key, "", ex, "TypeError")
         /\ UNCHANGED <<map, now, ticks, written, ssVars, setVars, rpVars, cmdVars, listVars, strVars>>

HMHas(key) ==
    /\ hm_op' = HMCall("has", key, "", 0, key \in DOMAIN map)
    /\ UNCHANGED <<map, now, ticks, written, ssVars, setVars, rpVars, cmdVars, listVars, strVars>>

\* ttl(key): on a missing key map.get(key) is undefined and reading its ex
\* throws a TypeError; `!item.ex` holds for null and for 0
ttl(key) ==
    IF map[key].ex = NULL \/ map[key].ex[1] = 0 THEN -1
    ELSE map[key].ex[1] - now

HMTtl(key) ==
    /\ hm_op' = HMCall("ttl", key, "", 0,
                       IF key \in DOMAIN map THEN ttl(key) ELSE "TypeError")
    /\ UNCHANGED <<map, now, ticks, written, ssVars, setVars, rpVars, cmdVars, listVars, strVars>>

HMPersistKeepsExpiry(key) ==
    /\ hm_op' = HMCall("persist", key, "", 0, key \in DOMAIN map)
    /\ written' = IF key \in DOMAIN map THEN Wrote("persist", key, map[key].value, 0)
                  ELSE written
    /\ UNCHANGED <<map, now, ticks, ssVars, setVars, rpVars, cmdVars, listVars, strVars>>

HMPersist(key) ==
    IF key \in DOMAIN map
    THEN /\ map' = MapSet(map, key, HashMapItem(map[key].value, NULL))
         /\ written' = Wrote("persist", key, map[key].value, 0)
         /\ hm_op' = HMCall("persist", key, "", 0, TRUE)
         /\ UNCHANGED <<now, ticks, ssVars, setVars, rpVars, cmdVars, listVars, strVars>>
    ELSE /\ hm_op' = HMCall("persist", key, "", 0, FALSE)
         /\ UNCHANGED <<map, now, ticks, written, ssVars, setVars, rpVars, cmdVars, listVars, strVars>>

\* the orders in which a Map holding the keys S can iterate them (insertion
\* order, which depends on the calls made so far)
Orders(S) ==
    {o \in [1..Cardinality(S) -> S] : \A i, j \in DOMAIN o : i # j => o[i] # o[j]}

\* the loop of values() and entries() over the keys in order, run to
\* completion: an expired entry is deleted and skipped, any other is yielded
RECURSIVE sweepLoop(_, _)
sweepLoop(order, m) ==
    IF order = <<>> THEN [yielded |-> <<>>, map |-> m]
    ELSE LET key == Head(order)
             rest == sweepLoop(Tail(order), m)
         IN  IF Expired(m[key], now)
             THEN [yielded |-> rest.yielded, map |-> MapDelete(rest.map, key)]
             ELSE [yielded |-> <<key>> \o rest.yielded, map |-> rest.map]

values(order) ==
    LET r == sweepLoop(order, map)
    IN  [i \in DOMAIN r.yielded |-> map[r.yielded[i]].value]

entries(order) ==
    LET r == sweepLoop(order, map)
    IN  [i \in DOMAIN r.yielded |-> <<r.yielded[i], map[r.yielded[i]].value>>]

HMValues ==
    \E order \in Orders(DOMAIN map) :
        /\ map' = sweepLoop(order, map).map
        /\ hm_op' = HMCall("values", "", "", 0, values(order))
        /\ UNCHANGED <<now, ticks, written, ssVars, setVars, rpVars, cmdVars, listVars, strVars>>

HMEntries ==
    \E order \in Orders(DOMAIN map) :
        /\ map' = sweepLoop(order, map).map
        /\ hm_op' = HMCall("entries", "", "", 0, entries(order))
        /\ UNCHANGED <<now, ticks, written, ssVars, setVars, rpVars, cmdVars, listVars, strVars>>

\* keys(): the iterator of this.map.keys(), run to completion
HMKeys ==
    \E order \in Orders(DOMAIN map) :
        /\ hm_op' = HMCall("keys", "", "", 0, order)
        /\ UNCHANGED <<map, now, ticks, written, ssVars, setVars, rpVars, cmdVars, listVars, strVars>>

\* time passes between two calls
Tick(d) ==
    /\ ticks < MaxTicks
    /\ now' = now + d
    /\ ticks' = ticks + 1
    /\ hm_op' = HMCall("tick", "", "", d, UNDEFINED)
    /\ UNCHANGED <<map, written, ssVars, setVars, rpVars, cmdVars, listVars, strVars>>

HMInit ==
    /\ map = EmptyMap
    /\ now = StartTime
    /\ ticks = 0
    /\ written = EmptyMap
    /\ hm_op = HMCall("new", "", "", 0, UNDEFINED)

\* -------------------------------------------------------------------- Set
\* the HashMap<T, boolean> of a Set, as the Map iterates it: a sequence of
\* <<key, item>> in insertion order, and the HashMap calls a Set makes on it
tableHas(t, key) == \E i \in DOMAIN t : t[i][1] = key
tableSet(t, key, value) ==
    IF tableHas(t, key)
    THEN [i \in DOMAIN t |-> IF t[i][1] = key THEN <<key, HashMapItem(value, NULL)>> ELSE t[i]]
    ELSE Append(t, <<key, HashMapItem(value, NULL)>>)
tableDelete(t, key) == SelectSeq(t, LAMBDA e : e[1] # key)
tableKeys(t) == [i \in DOMAIN t |-> t[i][1]]

\* new Set()
NewSet == [map |-> <<>>, _size |-> 0]

\* a Set method's effect on its instance, and its result
SetResult(S, ret) == [set |-> S, ret |-> ret]

setAddAlwaysCounts(S, value) ==
    SetResult([map |-> tableSet(S.map, value, TRUE), _size |-> S._size + 1],
              ~tableHas(S.map, value))

setAdd(S, value) ==
    IF tableHas(S.map, value) THEN SetResult(S, FALSE)
    ELSE SetResult([map |-> tableSet(S.map, value, TRUE), _size |-> S._size + 1], TRUE)

setDelete(S, value) ==
    IF ~tableHas(S.map, value) THEN SetResult(S, FALSE)
    ELSE SetResult([map |-> tableDelete(S.map, value), _size |-> S._size - 1], TRUE)

setHas(S, value) == tableHas(S.map, value)

setClear(S) == [map |-> <<>>, _size |-> 0]

\* the loops `for (const value of ...)` of union, of intersection and of
\* difference over the values still to visit
RECURSIVE unionLoop(_, _)
unionLoop(unionSet, vals) ==
    IF vals = <<>> THEN unionSet
    ELSE unionLoop(setAdd(unionSet, Head(vals)).set, Tail(vals))

RECURSIVE intersectionLoop(_, _, _)
intersectionLoop(intersectionSet, vals, largestSet) ==
    IF vals = <<>> THEN intersectionSet
    ELSE intersectionLoop(IF setHas(largestSet, Head(vals))
                          THEN setAdd(intersectionSet, Head(vals)).set
                          ELSE intersectionSet,
                          Tail(vals), largestSet)

RECURSIVE differenceLoop(_, _, _)
differenceLoop(differenceSet, vals, other) ==
    IF vals = <<>> THEN differenceSet
    ELSE differenceLoop(IF ~setHas(other, Head(vals))
                        THEN setAdd(differenceSet, Head(vals)).set
                        ELSE differenceSet,
                        Tail(vals), other)

union(this, other) ==
    unionLoop(unionLoop(NewSet, tableKeys(this.map)), tableKeys(other.map))

intersectionNoHasTest(this, other) ==
    LET smallestSet == IF this._size < other._size THEN this ELSE other
    IN  unionLoop(NewSet, tableKeys(smallestSet.map))

intersection(this, other) ==
    LET smallestSet == IF this._size < other._size THEN this ELSE other
        largestSet == IF this._size < other._size THEN other ELSE this
    IN  intersectionLoop(NewSet, tableKeys(smallestSet.map), largestSet)

difference(this, other) ==
    differenceLoop(NewSet, tableKeys(this.map), other)

isSubsetOf(this, other) ==
    IF this._size > other._size THEN FALSE
    ELSE \A i \in DOMAIN this.map : setHas(other, this.map[i][1])

isSupersetOf(this, other) == isSubsetOf(other, this)

isProperSubsetOfNoSizeTest(this, other) == isSubsetOf(this, other)

isProperSubsetOf(this, other) ==
    isSubsetOf(this, other) /\ this._size < other._size

SetCall(name, on, arg, ret) == [name |-> name, on |-> on, arg |-> arg, ret |-> ret]

SetAdd(x, value) ==
    /\ sets' = [sets EXCEPT ![x] = setAdd(sets[x], value).set]
    /\ added' = [added EXCEPT ![x] = @ \cup {value}]
    /\ set_op' = SetCall("add", x, value, setAdd(sets[x], value).ret)
    /\ UNCHANGED <<ssVars, hmVars, rpVars, cmdVars, listVars, strVars>>

SetDelete(x, value) ==
    /\ sets' = [sets EXCEPT ![x] = setDelete(sets[x], value).set]
    /\ added' = [added EXCEPT ![x] = @ \ {value}]
    /\ set_op' = SetCall("delete", x, value, setDelete(sets[x], value).ret)
    /\ UNCHANGED <<ssVars, hmVars, rpVars, cmdVars, listVars, strVars>>

SetHas(x, value) ==
    /\ set_op' = SetCall("has", x, value, setHas(sets[x], value))
    /\ UNCHANGED <<sets, added, ssVars, hmVars, rpVars, cmdVars, listVars, strVars>>

SetClear(x) ==
    /\ sets' = [sets EXCEPT ![x] = setClear(sets[x])]
    /\ added' = [added EXCEPT ![x] = {}]
    /\ set_op' = SetCall("clear", x, 0, UNDEFINED)
    /\ UNCHANGED <<ssVars, hmVars, rpVars, cmdVars, listVars, strVars>>

\* x.union(y) and the other calls that take a Set and change neither
SetUnion(x, y) ==
    /\ set_op' = SetCall("union", x, y, union(sets[x], sets[y]))
    /\ UNCHANGED <<sets, added, ssVars, hmVars, rpVars, cmdVars, listVars, strVars>>

SetIntersection(x, y) ==
    /\ set_op' = SetCall("intersection", x, y, intersection(sets[x], sets[y]))
    /\ UNCHANGED <<sets, added, ssVars, hmVars, rpVars, cmdVars, listVars, strVars>>

SetDifference(x, y) ==
    /\ set_op' = SetCall("difference", x, y, difference(sets[x], sets[y]))
    /\ UNCHANGED <<sets, added, ssVars, hmVars, rpVars, cmdVars, listVars, strVars>>

SetIsSubsetOf(x, y) ==
    /\ set_op' = SetCall("isSubsetOf", x, y, isSubsetOf(sets[x], sets[y]))
    /\ UNCHANGED <<sets, added, ssVars, hmVars, rpVars, cmdVars, listVars, strVars>>

SetIsSupersetOf(x, y) ==
    /\ set_op' = SetCall("isSupersetOf", x, y, isSupersetOf(sets[x], sets[y]))
    /\ UNCHANGED <<sets, added, ssVars, hmVars, rpVars, cmdVars, listVars, strVars>>

SetIsProperSubsetOf(x, y) ==
    /\ set_op' = SetCall("isProperSubsetOf", x, y, isProperSubsetOf(sets[x], sets[y]))
    /\ UNCHANGED <<sets, added, ssVars, hmVars, rpVars, cmdVars, listVars, strVars>>

SetInit ==
    /\ sets = [x \in SetNames |-> NewSet]
    /\ added = [x \in SetNames |-> {}]
    /\ set_op = SetCall("new", "", 0, UNDEFINED)

\* ------------------------------------------------------------- RESP codec
\* A string is the sequence of its characters, each a one-character string;
\* the line terminator "\r\n" is kept as a single element of length 2.
\* RESP: the type characters, the terminator and the boolean payloads
RESP ==
    [SIMPLE_STRING |-> "+", ERROR |-> "-", INTEGER |-> ":", BULK_STRING |-> "$",
     ARRAY |-> "*", BOOLEAN |-> "#", DOUBLE |-> ",", NULL |-> "_",
     BULK_ERROR |-> "!", MAP |-> "%", CRLF |-> "\r\n",
     NIL |-> "~", TRUE |-> <<"t">>, FALSE |-> <<"f">>]

\* the reply tokens sent as Simple Strings
COMMON_RESP == {<<"O", "K">>}

\* a character outside ASCII (e with an acute accent, U+00E9): one UTF-16
\* unit, two UTF-8 bytes
TwoByteChar == "U+00E9"

\* String.length counts UTF-16 units and Buffer.byteLength UTF-8 bytes
length(str) == Len(str) + Cardinality({i \in DOMAIN str : str[i] = RESP.CRLF})

byteLength(str) ==
    Len(str) + Cardinality({i \in DOMAIN str : str[i] \in {RESP.CRLF, TwoByteChar}})

\* bufferStream.split(RESP.CRLF): the texts before, between and after the
\* terminators
split(str) ==
    LET at == SelectSeq([i \in 1..Len(str) |-> i], LAMBDA i : str[i] = RESP.CRLF)
        cuts == <<0>> \o at \o <<Len(str) + 1>>
    IN  [k \in 1..(Len(cuts) - 1) |-> SubSeq(str, cuts[k] + 1, cuts[k + 1] - 1)]

\* .filter(Boolean): the empty string is falsy
filterBoolean(segments) == SelectSeq(segments, LAMBDA x : x # <<>>)

\* ---- numbers: the number m / 10^k is <<m, k>>, with no trailing zero in
\* its k decimals; NaN is apart
DigitChars == <<"0", "1", "2", "3", "4", "5", "6", "7", "8", "9">>
IsDigit(c) == \E d \in DOMAIN DigitChars : DigitChars[d] = c
DigitValue(c) == (CHOOSE d \in DOMAIN DigitChars : DigitChars[d] = c) - 1

RECURSIVE Pow10(_)
Pow10(k) == IF k = 0 THEN 1 ELSE 10 * Pow10(k - 1)

RECURSIVE Normal(_, _)
Normal(m, k) == IF k > 0 /\ m % 10 = 0 THEN Normal(m \div 10, k - 1) ELSE <<m, k>>

NaN == [nan |-> TRUE, v |-> <<0, 0>>]
Number(m, k) == [nan |-> FALSE, v |-> Normal(m, k)]

\* the longest prefix of str made of digits, and their value
RECURSIVE DigitsPrefix(_)
DigitsPrefix(str) ==
    IF str # <<>> /\ IsDigit(Head(str)) THEN <<Head(str)>> \o DigitsPrefix(Tail(str))
    ELSE <<>>

RECURSIVE DigitsValue(_)
DigitsValue(ds) ==
    IF ds = <<>> THEN 0
    ELSE 10 * DigitsValue(SubSeq(ds, 1, Len(ds) - 1)) + DigitValue(ds[Len(ds)])

Signed(str) == str # <<>> /\ Head(str) \in {"-", "+"}
Unsigned(str) == IF Signed(str) THEN Tail(str) ELSE str
SignOf(str) == IF str # <<>> /\ Head(str) = "-" THEN -1 ELSE 1

\* parseInt(payload, 10): an optional sign and the digits that follow it,
\* whatever comes after them; NaN when there is no digit
parseInt(payload) ==
    LET ds == DigitsPrefix(Unsigned(payload))
    IN  IF ds = <<>> THEN NaN ELSE Number(SignOf(payload) * DigitsValue(ds), 0)

\* parseFloat(payload): an optional sign, digits, and an optional point and
\* more digits, whatever comes after them; NaN when there is no digit
parseFloat(payload) ==
    LET body == Unsigned(payload)
        int == DigitsPrefix(body)
        after == SubSeq(body, Len(int) + 1, Len(body))
        frac == IF after # <<>> /\ Head(after) = "." THEN DigitsPrefix(Tail(after)) ELSE <<>>
    IN  IF int = <<>> /\ frac = <<>> THEN NaN
        ELSE Number(SignOf(payload) * (DigitsValue(int) * Pow10(Len(frac)) + DigitsValue(frac)),
                    Len(frac))

\* the decimal digits of n >= 0, and of n padded with zeros to width w
RECURSIVE ToDigits(_)
ToDigits(n) ==
    IF n < 10 THEN <<DigitChars[n + 1]>>
    ELSE ToDigits(n \div 10) \o <<DigitChars[(n % 10) + 1]>>

RECURSIVE Padded(_, _)
Padded(ds, w) == IF Len(ds) >= w THEN ds ELSE Padded(<<"0">> \o ds, w)

\* String(data) and data.toString() of the number num = <<m, k>>
numberToString(num) ==
    LET m == num[1]
        k == num[2]
        a == IF m < 0 THEN -m ELSE m
        sign == IF m < 0 THEN <<"-">> ELSE <<>>
    IN  IF k = 0 THEN sign \o ToDigits(a)
        ELSE sign \o ToDigits(a \div Pow10(k)) \o <<".">>
                  \o Padded(ToDigits(a % Pow10(k)), k)

\* toLocaleString keeps at most this many decimals
MaxFractionDigits == 3

\* data.toLocaleString("fullwide", {useGrouping: false}): the number rounded
\* (half away from zero) to MaxFractionDigits decimals
toLocaleString(num) ==
    LET m == num[1]
        k == num[2]
        a == IF m < 0 THEN -m ELSE m
        q == Pow10(k - MaxFractionDigits)
        r == (a + q \div 2) \div q
    IN  IF k <= MaxFractionDigits THEN numberToString(num)
        ELSE numberToString(Normal((IF m < 0 THEN -1 ELSE 1) * r, MaxFractionDigits))

\* ---- JavaScript values, by typeof / Array.isArray / isMap
JsString(str) == [t |-> "string", str |-> str]
JsNumber(m, k) == [t |-> "number", num |-> Normal(m, k)]
JsBoolean(b) == [t |-> "boolean", bool |-> b]
JsNull == [t |-> "null"]
JsArray(items) == [t |-> "array", items |-> items]
JsMap(pairs) == [t |-> "map", pairs |-> pairs]
JsUndefined == [t |-> "undefined"]
\* an Error object with its message
JsError(message) == [t |-> "error", message |-> message]
\* values that are none of the above: a symbol, a function, a bigint, and an
\* object that is not null, an array, a Map or an Error
JsSymbol == [t |-> "symbol"]
JsFunction == [t |-> "function"]
JsBigint == [t |-> "bigint"]
JsObject == [t |-> "object"]

\* typeof data, as text
typeof(data) ==
    CASE data.t = "symbol" -> <<"s", "y", "m", "b", "o", "l">>
      [] data.t = "function" -> <<"f", "u", "n", "c", "t", "i", "o", "n">>
      [] data.t = "bigint" -> <<"b", "i", "g", "i", "n", "t">>
      [] data.t = "string" -> <<"s", "t", "r", "i", "n", "g">>
      [] data.t = "number" -> <<"n", "u", "m", "b", "e", "r">>
      [] data.t = "boolean" -> <<"b", "o", "o", "l", "e", "a", "n">>
      [] data.t = "undefined" -> <<"u", "n", "d", "e", "f", "i", "n", "e", "d">>
      [] data.t \in {"null", "array", "map", "error", "object"} ->
            <<"o", "b", "j", "e", "c", "t">>

\* the fixed texts of the error replies
UnknownError == <<"U", "n", "k", "n", "o", "w", "n", " ", "e", "r", "r", "o", "r">>
UnsupportedDataType ==
    <<"U", "n", "s", "u", "p", "p", "o", "r", "t", "e", "d", " ", "d", "a", "t", "a", " ",
      "t", "y", "p", "e", ":", " ">>

\* ---- RespSerializer
serialiseBulkString(data) ==
    <<RESP.BULK_STRING>> \o ToDigits(byteLength(data)) \o <<RESP.CRLF>> \o data \o <<RESP.CRLF>>

serialiseBulkError(data) ==
    <<RESP.BULK_ERROR>> \o ToDigits(byteLength(data)) \o <<RESP.CRLF>> \o data \o <<RESP.CRLF>>

serialiseSimpleString(data) == <<RESP.SIMPLE_STRING>> \o data \o <<RESP.CRLF>>

\* the same with the test `message.length <= 10`
serialiseErrorBoundaryOff(message) ==
    IF length(message) <= 10 THEN <<RESP.ERROR>> \o UnknownError \o <<RESP.CRLF>>
    ELSE serialiseBulkError(message)

\* serialiseError(error), on error.message
serialiseError(message) ==
    IF length(message) < 10 THEN <<RESP.ERROR>> \o UnknownError \o <<RESP.CRLF>>
    ELSE serialiseBulkError(IF message = <<>> THEN UnknownError ELSE message)

serialiseString(data) ==
    IF length(data) = 0 THEN <<RESP.BULK_STRING, "0", RESP.CRLF, RESP.CRLF>>
    ELSE IF data \in COMMON_RESP THEN serialiseSimpleString(data)
    ELSE serialiseBulkString(data)

serialiseInteger(data) == <<RESP.INTEGER>> \o numberToString(data) \o <<RESP.CRLF>>

serialiseDouble(data) == <<RESP.DOUBLE>> \o toLocaleString(data) \o <<RESP.CRLF>>

serialiseBoolean(data) ==
    IF data THEN RESP.TRUE \o <<RESP.CRLF>> ELSE RESP.FALSE \o <<RESP.CRLF>>

serialiseNull == <<RESP.NULL, RESP.CRLF>>

serialiseNIL == <<RESP.NIL, RESP.CRLF>>

\* the same without the name of the type
serialiseUnsupportedTypeNoTypeof(data) == serialiseBulkError(UnsupportedDataType)

serialiseUnsupportedType(data) == serialiseBulkError(UnsupportedDataType \o typeof(data))

RECURSIVE serialise(_)
RECURSIVE serialiseItems(_)
RECURSIVE serialiseEntries(_)

\* data.map((item) => this.serialise(item)).join("")
serialiseItems(data) ==
    IF data = <<>> THEN <<>> ELSE serialise(Head(data)) \o serialiseItems(Tail(data))

\* the entries mapped to serialise(key) + serialise(value), joined
serialiseEntries(data) ==
    IF data = <<>> THEN <<>>
    ELSE serialise(Head(data)[1]) \o serialise(Head(data)[2]) \o serialiseEntries(Tail(data))

serialiseArray(data) ==
    IF Len(data) = 0 THEN <<RESP.ARRAY, "0", RESP.CRLF>>
    ELSE <<RESP.ARRAY>> \o ToDigits(Len(data)) \o <<RESP.CRLF>>
             \o serialiseItems(data) \o <<RESP.CRLF>>

serialiseMap(data) ==
    <<RESP.MAP>> \o ToDigits(Len(data)) \o <<RESP.CRLF>>
        \o serialiseEntries(data) \o <<RESP.CRLF>>

\* serialise(data): the switch on typeof data; a number whose text has a
\* decimal point is a Double
serialise(data) ==
    CASE data.t = "string" -> serialiseString(data.str)
      [] data.t = "number" ->
            IF \E i \in DOMAIN numberToString(data.num) : numberToString(data.num)[i] = "."
            THEN serialiseDouble(data.num)
            ELSE serialiseInteger(data.num)
      [] data.t = "boolean" -> serialiseBoolean(data.bool)
      [] data.t = "null" -> serialiseNull
      [] data.t = "array" -> serialiseArray(data.items)
      [] data.t = "map" -> serialiseMap(data.pairs)
      [] data.t = "undefined" -> serialiseNIL
      [] data.t = "error" -> serialiseError(data.message)
      [] OTHER -> serialiseUnsupportedType(data)

\* ---- Parser
\* how a parse function ends: it returns val, leaving rest in bufferArray, or
\* it throws an Error whose message is error (a fixed text is one element)
Returned(val, rest) == [thrown |-> FALSE, val |-> val, rest |-> rest]
Thrown(message) == [thrown |-> TRUE, error |-> message]

\* Map.set(key, value): strings, numbers, booleans and null are the same key
\* when equal; an array or a Map just decoded is a key of its own
mapSet(pairs, key, value) ==
    IF key.t \notin {"array", "map"} /\ \E i \in DOMAIN pairs : pairs[i][1] = key
    THEN [i \in DOMAIN pairs |-> IF pairs[i][1] = key THEN <<key, value>> ELSE pairs[i]]
    ELSE Append(pairs, <<key, value>>)

parseSimpleString(payload, bufferArray) == Returned(JsString(payload), bufferArray)

parseInteger(payload, bufferArray) ==
    LET result == parseInt(payload)
    IN  IF result.nan THEN Thrown(<<"Invalid integer format">>)
        ELSE Returned(JsNumber(result.v[1], result.v[2]), bufferArray)

\* the message is `Redis error response: ${payload}`
parseError(payload, bufferArray) == Thrown(<<"Redis error response: ">> \o payload)

parseBulkString(payload, bufferArray) ==
    LET len == parseInt(payload)
    IN  IF ~len.nan /\ len.v[1] = -1 THEN Returned(JsNull, bufferArray)
        ELSE IF Len(bufferArray) = 0 THEN Thrown(<<"Unexpected end of input for Bulk String">>)
        ELSE IF len.nan \/ length(Head(bufferArray)) # len.v[1]
             THEN Thrown(<<"Bulk String length mismatch">>)
        ELSE Returned(JsString(Head(bufferArray)), Tail(bufferArray))

parseNull(payload, bufferArray) == Returned(JsNull, bufferArray)

parseBoolean(payload, bufferArray) ==
    IF payload = RESP.TRUE THEN Returned(JsBoolean(TRUE), bufferArray)
    ELSE IF payload = RESP.FALSE THEN Returned(JsBoolean(FALSE), bufferArray)
    ELSE Thrown(<<"Invalid type of boolean encoding">>)

parseDouble(payload, bufferArray) ==
    LET result == parseFloat(payload)
    IN  IF result.nan THEN Thrown(<<"Invalid double format">>)
        ELSE Returned(JsNumber(result.v[1], result.v[2]), bufferArray)

parseBulkError(payload, bufferArray) ==
    LET len == parseInt(payload)
    IN  IF ~len.nan /\ len.v[1] = -1 THEN Returned(JsNull, bufferArray)
        ELSE IF Len(bufferArray) = 0 THEN Thrown(<<"Unexpected end of input for Bulk Error">>)
        ELSE IF len.nan \/ length(Head(bufferArray)) # len.v[1]
             THEN Thrown(<<"Bulk Error length mismatch">>)
        ELSE Thrown(Head(bufferArray))

RECURSIVE parseNext(_)
RECURSIVE parseArrayLoop(_, _, _)
RECURSIVE parseMapLoop(_, _, _)

\* the loop of parseArray with todo elements still to read; it does not run
\* when arrayLen is NaN
parseArrayLoop(arr, todo, bufferArray) ==
    IF todo <= 0 THEN Returned(JsArray(arr), bufferArray)
    ELSE LET item == parseNext(bufferArray)
         IN  IF item.thrown THEN item
             ELSE parseArrayLoop(Append(arr, item.val), todo - 1, item.rest)

parseArray(payload, bufferArray) ==
    LET arrayLen == parseInt(payload)
    IN  IF ~arrayLen.nan /\ arrayLen.v[1] = -1 THEN Returned(JsNull, bufferArray)
        ELSE parseArrayLoop(<<>>, IF arrayLen.nan THEN 0 ELSE arrayLen.v[1], bufferArray)

\* the loop of parseMap with todo pairs still to read
parseMapLoop(pairs, todo, bufferArray) ==
    IF todo <= 0 THEN Returned(JsMap(pairs), bufferArray)
    ELSE LET key == parseNext(bufferArray)
         IN  IF key.thrown THEN key
             ELSE LET value == parseNext(key.rest)
                  IN  IF value.thrown THEN value
                      ELSE parseMapLoop(mapSet(pairs, key.val, value.val), todo - 1, value.rest)

parseMap(payload, bufferArray) ==
    LET mapLen == parseInt(payload)
    IN  IF ~mapLen.nan /\ mapLen.v[1] < 0 THEN Thrown(<<"Map length must be > 0">>)
        ELSE parseMapLoop(<<>>, IF mapLen.nan THEN 0 ELSE mapLen.v[1], bufferArray)

\* parseNext with getParserFunction's switch; bufferArray is read from its
\* front (the code reverses it once and pops from its end)
parseNext(bufferArray) ==
    IF Len(bufferArray) = 0 THEN Returned(JsNull, bufferArray)
    ELSE LET buffer == Head(bufferArray)
             rest == Tail(bufferArray)
         IN  IF buffer = <<>> THEN Thrown(<<"Unexpected empty buffer">>)
             ELSE LET typeChar == buffer[1]
                      payload == Tail(buffer)
                  IN  CASE typeChar = RESP.SIMPLE_STRING -> parseSimpleString(payload, rest)
                        [] typeChar = RESP.INTEGER -> parseInteger(payload, rest)
                        [] typeChar = RESP.ERROR -> parseError(payload, rest)
                        [] typeChar = RESP.BULK_STRING -> parseBulkString(payload, rest)
                        [] typeChar = RESP.ARRAY -> parseArray(payload, rest)
                        [] typeChar = RESP.BOOLEAN -> parseBoolean(payload, rest)
                        [] typeChar = RESP.DOUBLE -> parseDouble(payload, rest)
                        [] typeChar = RESP.NULL -> parseNull(payload, rest)
                        [] typeChar = RESP.BULK_ERROR -> parseBulkError(payload, rest)
                        [] typeChar = RESP.MAP -> parseMap(payload, rest)
                        [] OTHER -> Thrown(<<"Unknown RESP type">>)

\* what a call ends with, for its caller: the value returned, or the Error
Outcome(r) == IF r.thrown THEN r ELSE [thrown |-> FALSE, val |-> r.val]

deserialiser(bufferStream) ==
    Outcome(parseNext(filterBoolean(split(bufferStream))))

\* ---- the values and frames the codec is run on
SeqsUpTo(S, n) == UNION {[1..i -> S] : i \in 0..n}

StrChars == {"a", "O", "K", TwoByteChar, RESP.CRLF}
Strings == SeqsUpTo(StrChars, MaxStrLen)

\* 0, 7, -12, 1000, 1.5, -2.5, 3.14 and 0.1234
Numbers ==
    {JsNumber(0, 0), JsNumber(7, 0), JsNumber(-12, 0), JsNumber(1000, 0),
     JsNumber(15, 1), JsNumber(-25, 1), JsNumber(314, 2), JsNumber(1234, 4)}

Scalars ==
    {JsString(str) : str \in Strings} \cup Numbers
        \cup {JsBoolean(TRUE), JsBoolean(FALSE), JsNull}

\* array elements, arrays among them
Items ==
    {JsString(<<>>), JsString(<<"a">>), JsNumber(7, 0), JsBoolean(TRUE), JsNull,
     JsArray(<<>>), JsArray(<<JsNumber(7, 0)>>)}
Arrays == {JsArray(items) : items \in SeqsUpTo(Items, MaxArrLen)}

MapKeys == {JsString(<<"a">>), JsNumber(7, 0)}
MapVals == {JsNumber(7, 0), JsString(<<>>), JsArray(<<JsString(<<"a">>)>>)}
Maps ==
    {JsMap(pairs) : pairs \in
        {p \in SeqsUpTo(MapKeys \X MapVals, MaxMapLen) :
            \A i, j \in DOMAIN p : i # j => p[i][1] # p[j][1]}}

\* an Error by the length of its message, with and without a character
\* outside ASCII in it
RECURSIVE Repeat(_, _)
Repeat(c, n) == IF n = 0 THEN <<>> ELSE <<c>> \o Repeat(c, n - 1)
ErrorMessages ==
    {Repeat("a", n) : n \in 0..MaxMsgLen}
        \cup {<<TwoByteChar>> \o Repeat("a", n - 1) : n \in 1..MaxMsgLen}
Errors == {JsError(message) : message \in ErrorMessages}

\* values outside the supported set, alone and nested
Unsupported == {JsSymbol, JsFunction, JsBigint, JsObject}
Nested ==
    {JsArray(<<x>>) : x \in Unsupported \cup {JsUndefined, JsError(<<"a">>)}}
        \cup {JsMap(<<<<JsString(<<"a">>), x>>>>) : x \in Unsupported}
        \cup {JsArray(<<JsNumber(7, 0), JsArray(<<JsSymbol>>)>>)}

\* what was sent: a value of the supported types, or another one
SentValue(v) ==
    [kind |-> IF v \in Scalars \cup Arrays \cup Maps THEN "value" ELSE "other", v |-> v]

\* a Bulk String frame as a client writes it: "$", the declared length, the
\* terminator, and then either nothing or a segment and the terminator
BulkLens == -1 .. 2 * MaxStrLen
BulkFrame(len, seg) == [kind |-> "bulk", len |-> len, seg |-> seg]
\* a segment is the text between two terminators, so it holds no terminator
Segments == {str \in Strings : \A i \in 1..Len(str) : str[i] # RESP.CRLF}
BulkFrames == {BulkFrame(len, seg) : len \in BulkLens, seg \in {<<>>} \cup {<<str>> : str \in Segments}}

\* an Integer or Double frame: the type character, a payload, the terminator
NumChars == {"1", "5", ".", "-", "x"}
NumericFrame(tag, text) == [kind |-> "numeric", tag |-> tag, text |-> text]
NumericFrames ==
    {NumericFrame(tag, text) : tag \in {RESP.INTEGER, RESP.DOUBLE},
                               text \in SeqsUpTo(NumChars, MaxTextLen)}

\* an Error frame: "-", the text, the terminator
ErrorFrame(text) == [kind |-> "error", tag |-> RESP.ERROR, text |-> text]
ErrorFrames == {ErrorFrame(text) : text \in Segments}

\* a Bulk Error frame: "!", the declared length, the terminator, and then
\* either nothing or a segment and the terminator
BulkErrorFrame(len, seg) == [kind |-> "bulkerror", len |-> len, seg |-> seg]
BulkErrorFrames ==
    {BulkErrorFrame(len, seg) : len \in BulkLens, seg \in {<<>>} \cup {<<str>> : str \in Segments}}

\* an Array or Map frame: "*" or "%", the declared number of elements or
\* pairs, the terminator, and then sent Integer frames ":1"
ContainerFrame(tag, count, n) == [kind |-> "container", tag |-> tag, count |-> count, sent |-> n]
ContainerFrames ==
    {ContainerFrame(tag, count, n) :
        tag \in {RESP.ARRAY, RESP.MAP}, count \in 0..(MaxArrLen + 1), n \in 0..(2 * MaxArrLen)}

RECURSIVE IntegerFrames(_)
IntegerFrames(n) ==
    IF n = 0 THEN <<>> ELSE <<RESP.INTEGER, "1", RESP.CRLF>> \o IntegerFrames(n - 1)

FrameText(frame) ==
    IF frame.kind = "container"
    THEN <<frame.tag>> \o numberToString(<<frame.count, 0>>) \o <<RESP.CRLF>>
             \o IntegerFrames(frame.sent)
    ELSE IF frame.kind \in {"bulk", "bulkerror"}
    THEN <<IF frame.kind = "bulk" THEN RESP.BULK_STRING ELSE RESP.BULK_ERROR>>
             \o numberToString(<<frame.len, 0>>) \o <<RESP.CRLF>>
             \o (IF frame.seg = <<>> THEN <<>> ELSE frame.seg[1] \o <<RESP.CRLF>>)
    ELSE <<frame.tag>> \o frame.text \o <<RESP.CRLF>>

RespCall(name, ret) == [name |-> name, ret |-> ret]

\* The codec keeps no state between calls: one run puts one text on the wire
\* and decodes it.
\* the server encodes a reply
RespSerialise(v) ==
    /\ rp_op.name = "new"
    /\ sent' = SentValue(v)
    /\ wire' = serialise(v)
    /\ rp_op' = RespCall("serialise", [thrown |-> FALSE, val |-> serialise(v)])
    /\ UNCHANGED <<ssVars, hmVars, setVars, cmdVars, listVars, strVars>>

\* a client writes a frame
RespReceive(frame) ==
    /\ rp_op.name = "new"
    /\ sent' = frame
    /\ wire' = FrameText(frame)
    /\ rp_op' = RespCall("receive", UNDEFINED)
    /\ UNCHANGED <<ssVars, hmVars, setVars, cmdVars, listVars, strVars>>

\* the text on the wire is decoded
RespDeserialise ==
    /\ rp_op.name \in {"serialise", "receive"}
    /\ rp_op' = RespCall("deserialiser", deserialiser(wire))
    /\ UNCHANGED <<sent, wire, ssVars, hmVars, setVars, cmdVars, listVars, strVars>>

\* ------------------------------------------------------------------ List
\* A List is head, tail, _length and the nodes it can reach. A reference to
\* a node is <<address>>, null is <<>>; list.heap maps the addresses in use
\* to their nodes [value, next].
ListValues == {"a", "b"}
NodeIds == 1..(MaxListLen + 1)
Indices == (0 - (MaxListLen + 1))..(MaxListLen + 1)

NewList == [head |-> NULL, tail |-> NULL, _length |-> 0, heap |-> [id \in {} |-> NULL]]

\* new Node(value): its next is null
ListNode(value) == [value |-> value, next |-> NULL]

\* the address of a new node: the lowest one not in use
NewNode(heap) ==
    <<CHOOSE id \in NodeIds \ DOMAIN heap : \A other \in NodeIds \ DOMAIN heap : id <= other>>

\* the addresses reachable from a reference
RECURSIVE reach(_, _, _)
reach(heap, ref, seen) ==
    IF ref = NULL \/ ref[1] \in seen THEN seen
    ELSE reach(heap, heap[ref[1]].next, seen \cup {ref[1]})

\* garbage collection: nodes that neither head nor tail reaches are gone
collect(l) ==
    LET live == reach(l.heap, l.head, {}) \cup reach(l.heap, l.tail, {})
    IN  [l EXCEPT !.heap = [id \in live |-> l.heap[id]]]

\* a negative index counts from the end
normalise(l, index) == IF index < 0 THEN l._length + index ELSE index

\* how a List call ends
ListReturned(val) == [thrown |-> FALSE, val |-> val]
IndexOutOfBounds == Thrown(<<"Index out of bounds">>)
ListResult(l, ret) == [list |-> collect(l), ret |-> ret]

\* set: `while (current && position < index - 1)`
RECURSIVE setWalk(_, _, _, _)
setWalk(heap, current, position, index) ==
    IF current # NULL /\ position < index - 1
    THEN setWalk(heap, heap[current[1]].next, position + 1, index)
    ELSE current

\* set without its write of tail
listSetTailKept(l, i, value) ==
    LET index == normalise(l, i)
        node == NewNode(l.heap)
        with == [id \in DOMAIN l.heap \cup {node[1]} |->
                    IF id = node[1] THEN ListNode(value) ELSE l.heap[id]]
    IN  IF index > l._length \/ index < 0 THEN ListResult(l, IndexOutOfBounds)
        ELSE IF index = 0
        THEN ListResult([l EXCEPT !.heap = [with EXCEPT ![node[1]].next = l.head],
                                  !.head = node,
                                  !.tail = IF l._length = 0 THEN node ELSE @,
                                  !._length = @ + 1],
                        ListReturned(UNDEFINED))
        ELSE LET current == setWalk(l.heap, l.head, 0, index)
             IN  IF current # NULL
                 THEN ListResult([l EXCEPT !.heap = [with EXCEPT
                                                ![node[1]].next = l.heap[current[1]].next,
                                                ![current[1]].next = node],
                                           !._length = @ + 1],
                                 ListReturned(UNDEFINED))
                 ELSE ListResult([l EXCEPT !._length = @ + 1], ListReturned(UNDEFINED))

\* set(index, value)
listSet(l, i, value) ==
    LET index == normalise(l, i)
        node == NewNode(l.heap)
        with == [id \in DOMAIN l.heap \cup {node[1]} |->
                    IF id = node[1] THEN ListNode(value) ELSE l.heap[id]]
    IN  IF index > l._length \/ index < 0 THEN ListResult(l, IndexOutOfBounds)
        ELSE IF index = 0
        THEN ListResult([l EXCEPT !.heap = [with EXCEPT ![node[1]].next = l.head],
                                  !.head = node,
                                  !.tail = IF l._length = 0 THEN node ELSE @,
                                  !._length = @ + 1],
                        ListReturned(UNDEFINED))
        ELSE LET current == setWalk(l.heap, l.head, 0, index)
             IN  IF current # NULL
                 THEN ListResult([l EXCEPT !.heap = [with EXCEPT
                                                ![node[1]].next = l.heap[current[1]].next,
                                                ![current[1]].next = node],
                                           !.tail = IF l.heap[current[1]].next = NULL
                                                    THEN node ELSE @,
                                           !._length = @ + 1],
                                 ListReturned(UNDEFINED))
                 ELSE ListResult([l EXCEPT !._length = @ + 1], ListReturned(UNDEFINED))

\* remove: `while (current.next && index > 1)`
RECURSIVE removeWalk(_, _, _)
removeWalk(heap, current, index) ==
    IF heap[current[1]].next # NULL /\ index > 1
    THEN removeWalk(heap, heap[current[1]].next, index - 1)
    ELSE current

\* remove that unlinks the node after the one asked for
listRemoveOffByOne(l, i) ==
    LET index == normalise(l, i)
    IN  IF index >= l._length \/ index < 0 \/ l.head = NULL THEN ListResult(l, ListReturned(UNDEFINED))
        ELSE IF index >= l._length - 1
        THEN ListResult(l, ListReturned(UNDEFINED))
        ELSE LET current == removeWalk(l.heap, l.head, index + 1)
                 after == l.heap[l.heap[current[1]].next[1]].next
             IN  ListResult([l EXCEPT !.heap[current[1]].next = after,
                                       !.tail = IF after = NULL THEN current ELSE @,
                                       !._length = @ - 1],
                             ListReturned(UNDEFINED))

\* remove(index)
listRemove(l, i) ==
    LET index == normalise(l, i)
    IN  IF index >= l._length \/ index < 0 THEN ListResult(l, ListReturned(UNDEFINED))
        ELSE IF index = 0
        THEN IF l.head = NULL THEN ListResult(l, ListReturned(UNDEFINED))
             ELSE ListResult([l EXCEPT !.head = l.heap[l.head[1]].next,
                                       !.tail = IF l._length = 1 THEN NULL ELSE @,
                                       !._length = @ - 1],
                             ListReturned(UNDEFINED))
        ELSE IF l.head = NULL THEN ListResult(l, ListReturned(UNDEFINED))
        ELSE LET current == removeWalk(l.heap, l.head, index)
             IN  IF l.heap[current[1]].next = NULL THEN ListResult(l, ListReturned(UNDEFINED))
                 ELSE LET after == l.heap[l.heap[current[1]].next[1]].next
                      IN  ListResult([l EXCEPT !.heap[current[1]].next = after,
                                                !.tail = IF after = NULL THEN current ELSE @,
                                                !._length = @ - 1],
                                      ListReturned(UNDEFINED))

\* get: `while (current && position < index)`
RECURSIVE getWalk(_, _, _, _)
getWalk(heap, current, position, index) ==
    IF current # NULL /\ position < index
    THEN getWalk(heap, heap[current[1]].next, position + 1, index)
    ELSE current

\* get with the bounds test of set
listGetBoundsOfSet(l, i) ==
    LET index == normalise(l, i)
    IN  IF index > l._length \/ index < 0 THEN IndexOutOfBounds
        ELSE LET current == getWalk(l.heap, l.head, 0, index)
             IN  IF current # NULL THEN ListReturned(<<l.heap[current[1]].value>>)
                 ELSE ListReturned(UNDEFINED)

\* get(index): a value is <<value>>, undefined is <<>>; `this.tail!` on a
\* null tail is a TypeError
listGet(l, i) ==
    LET index == normalise(l, i)
    IN  IF index >= l._length \/ index < 0 THEN IndexOutOfBounds
        ELSE IF l.head = NULL THEN ListReturned(UNDEFINED)
        ELSE IF index = 0 THEN ListReturned(<<l.heap[l.head[1]].value>>)
        ELSE IF index = l._length - 1
        THEN IF l.tail = NULL THEN Thrown(<<"TypeError">>)
             ELSE ListReturned(<<l.heap[l.tail[1]].value>>)
        ELSE LET current == getWalk(l.heap, l.head, 0, index)
             IN  IF current # NULL THEN ListReturned(<<l.heap[current[1]].value>>)
                 ELSE ListReturned(UNDEFINED)

\* clear()
listClear(l) == ListResult([l EXCEPT !.head = NULL, !.tail = NULL, !._length = 0],
                           ListReturned(UNDEFINED))

\* toString: `while (current.next) { str += current.value + "->"; ... }`
RECURSIVE toStringLoop(_, _, _)
toStringLoop(heap, current, text) ==
    IF heap[current[1]].next # NULL
    THEN toStringLoop(heap, heap[current[1]].next, text \o <<heap[current[1]].value, "->">>)
    ELSE text \o <<heap[current[1]].value>>

listToString(l) == IF l.head = NULL THEN <<>> ELSE toStringLoop(l.heap, l.head, <<>>)

\* [Symbol.iterator]: the values that next() gives until done
RECURSIVE iterate(_, _)
iterate(heap, current) ==
    IF current = NULL THEN <<>>
    ELSE <<heap[current[1]].value>> \o iterate(heap, heap[current[1]].next)

listIterator(l) == iterate(l.heap, l.head)

\* ---- List actions
ListCall(name, index, value, ret) == [name |-> name, index |-> index, value |-> value, ret |-> ret]

ListSet(i, value) ==
    /\ list._length < MaxListLen \/ listSet(list, i, value).ret.thrown
    /\ list' = listSet(list, i, value).list
    /\ list_op' = ListCall("set", i, value, listSet(list, i, value).ret)
    /\ UNCHANGED <<ssVars, hmVars, setVars, rpVars, cmdVars, strVars>>

ListRemove(i) ==
    /\ list' = listRemove(list, i).list
    /\ list_op' = ListCall("remove", i, "", listRemove(list, i).ret)
    /\ UNCHANGED <<ssVars, hmVars, setVars, rpVars, cmdVars, strVars>>

ListGet(i) ==
    /\ list_op' = ListCall("get", i, "", listGet(list, i))
    /\ UNCHANGED <<list, ssVars, hmVars, setVars, rpVars, cmdVars, strVars>>

ListClear ==
    /\ list' = listClear(list).list
    /\ list_op' = ListCall("clear", 0, "", listClear(list).ret)
    /\ UNCHANGED <<ssVars, hmVars, setVars, rpVars, cmdVars, strVars>>

ListToString ==
    /\ list_op' = ListCall("toString", 0, "", ListReturned(listToString(list)))
    /\ UNCHANGED <<list, ssVars, hmVars, setVars, rpVars, cmdVars, strVars>>

ListIterate ==
    /\ list_op' = ListCall("iterator", 0, "", ListReturned(listIterator(list)))
    /\ UNCHANGED <<list, ssVars, hmVars, setVars, rpVars, cmdVars, strVars>>

ListInit ==
    /\ list = NewList
    /\ list_op = ListCall("new", 0, "", UNDEFINED)

ListNext ==
    \/ \E i \in Indices, value \in ListValues : ListSet(i, value)
    \/ \E i \in Indices : ListRemove(i)
    \/ \E i \in Indices : ListGet(i)
    \/ ListClear
    \/ ListToString
    \/ ListIterate

\* ---------------------------------------------------------------- String
\* A String is buffer, its bytes (buffer[0] of the code is buffer[1] here),
\* and _length, the number of bytes. The letter "A" is the byte 65.
Bytes == {0, 65, 255}
Buffers == UNION {[1..n -> Bytes] : n \in 0..MaxBytes}
Offsets == (0 - 1)..(BitsPerByte * MaxBytes + 2)
Bits == {0, 1}

\* the constructor: _length = Buffer.byteLength(buffer)
NewString(value) == [buffer |-> value, _length |-> Len(value)]

\* (byte >> bitIndex) & 1
bitOf(byte, bitIndex) == (byte \div (2 ^ bitIndex)) % 2

InvalidOffset == Thrown(<<"Invalid offset">>)
StrReturned(val) == [thrown |-> FALSE, val |-> val]

\* the test of the offset made by getBit and setBit
invalidOffset(s, offset) == offset < 0 \/ offset >= s._length

\* getBit(offset): offset >> 3 is the byte, offset & 7 the bit
getBit(s, offset) ==
    IF invalidOffset(s, offset) THEN InvalidOffset
    ELSE StrReturned(bitOf(s.buffer[(offset \div BitsPerByte) + 1], offset % BitsPerByte))

\* setBit(offset, value): the String left and what is returned
setBit(s, offset, value) ==
    IF invalidOffset(s, offset) THEN [string |-> s, ret |-> InvalidOffset]
    ELSE LET byteIndex == offset \div BitsPerByte
             bitIndex == offset % BitsPerByte
             oldBit == bitOf(s.buffer[byteIndex + 1], bitIndex)
             byte == s.buffer[byteIndex + 1] - oldBit * (2 ^ bitIndex) + value * (2 ^ bitIndex)
         IN  [string |-> [s EXCEPT !.buffer[byteIndex + 1] = byte % (2 ^ BitsPerByte)],
              ret |-> StrReturned(oldBit)]

\* ---- String actions
StrCall(name, offset, value, ret) == [name |-> name, offset |-> offset, value |-> value, ret |-> ret]

StrGetBit(offset) ==
    /\ string_op' = StrCall("getBit", offset, 0, getBit(string, offset))
    /\ UNCHANGED <<string, ssVars, hmVars, setVars, rpVars, cmdVars, listVars>>

StrSetBit(offset, value) ==
    /\ string' = setBit(string, offset, value).string
    /\ string_op' = StrCall("setBit", offset, value, setBit(string, offset, value).ret)
    /\ UNCHANGED <<ssVars, hmVars, setVars, rpVars, cmdVars, listVars>>

\* new String("A")
StrInit ==
    /\ string = NewString(<<65>>)
    /\ string_op = StrCall("new", 0, 0, UNDEFINED)

StrNext ==
    \/ \E offset \in Offsets : StrGetBit(offset)
    \/ \E offset \in Offsets, value \in Bits : StrSetBit(offset, value)

\* ------------------------------------------------------- CommandExecutor
\* The keyspace is GlobalMap, a HashMap: the variables map and now. A
\* command is its name, its key arguments, and (EXPIRE, PEXPIRE) the text of
\* its number argument.
Command(name, keys, num) == [name |-> name, keys |-> keys, num |-> num]

\* how the promise returned by a handler or by execute ends: resolved with
\* undefined, with the number num / den, with a value of the keyspace or with
\* a text, or rejected with an Error
Resolved(kind, num, den) ==
    [state |-> "resolved", kind |-> kind, num |-> num, den |-> den, text |-> ""]
ResolvedText(text) ==
    [state |-> "resolved", kind |-> "string", num |-> 0, den |-> 1, text |-> text]
Rejected(text) ==
    [state |-> "rejected", kind |-> "error", num |-> 0, den |-> 1, text |-> text]

\* resolved with an array of items, or with one object
ResolvedArray(items) ==
    [state |-> "resolved", kind |-> "array", num |-> 0, den |-> 1, text |-> "", items |-> items]
ResolvedObject(object) ==
    [state |-> "resolved", kind |-> "object", num |-> 0, den |-> 1, text |-> "", object |-> object]

\* what a handler leaves: the keyspace and its promise
Handled(m, outcome) == [map |-> m, outcome |-> outcome]

\* globalMap.get(key) on the keyspace m at time t: the value, and the
\* keyspace with an expired entry deleted
globalMapGet(m, t, key) ==
    IF key \notin DOMAIN m THEN [value |-> NULL, map |-> m]
    ELSE IF Expired(m[key], t) THEN [value |-> NULL, map |-> MapDelete(m, key)]
    ELSE [value |-> m[key].value, map |-> m]

\* ---- the handlers of basic.ts
RECURSIVE existsLoop(_, _, _)
existsLoop(keys, m, flag) ==
    IF keys = <<>> THEN flag
    ELSE existsLoop(Tail(keys), m, IF Head(keys) \in DOMAIN m THEN flag + 1 ELSE flag)

EXISTS(command, m, t) == Handled(m, Resolved("number", existsLoop(command.keys, m, 0), 1))

\* the loop without the delete
delLoopCountOnly(keys, m, flag) ==
    Handled(m, Resolved("number", existsLoop(keys, m, flag), 1))

RECURSIVE delLoop(_, _, _)
delLoop(keys, m, flag) ==
    IF keys = <<>> THEN Handled(m, Resolved("number", flag, 1))
    ELSE IF Head(keys) \in DOMAIN m
         THEN delLoop(Tail(keys), MapDelete(m, Head(keys)), flag + 1)
         ELSE delLoop(Tail(keys), m, flag)

DEL(command, m, t) == delLoop(command.keys, m, 0)

\* EXPIRE and PEXPIRE: the handler computes an absolute time and expireat
\* adds Date.now() to its argument; command.num is a numeral
expire(command, m, t, unit) ==
    LET key == command.keys[1]
        ex == parseInt(command.num).v[1] * unit + t
    IN  IF key \notin DOMAIN m THEN Handled(m, Resolved("number", 0, 1))
        ELSE Handled(MapSet(m, key, HashMapItem(m[key].value, <<ex + t>>)),
                     Resolved("number", ex, unit))

EXPIRE(command, m, t) == expire(command, m, t, MsPerSecond)
PEXPIRE(command, m, t) == expire(command, m, t, 1)

\* TTL: globalMap.ttl(key) reads the ex of map.get(key), a TypeError when
\* the key is missing
TTL(command, m, t) ==
    LET key == command.keys[1]
    IN  IF key \notin DOMAIN m THEN Handled(m, Rejected("TypeError"))
        ELSE IF m[key].ex = NULL \/ m[key].ex[1] = 0 THEN Handled(m, Resolved("number", -1, 1))
        ELSE Handled(m, Resolved("number", m[key].ex[1] - t, 1))

\* the lines shared by RENAME and RENAMENX: set(newKey, get(oldKey)) and
\* delete(oldKey)
move(oldKey, newKey, m, t) ==
    LET got == globalMapGet(m, t, oldKey)
        set == MapSet(got.map, newKey, HashMapItem(got.value, NULL))
    IN  Handled(MapDelete(set, oldKey), Resolved("number", 1, 1))

RENAME(command, m, t) ==
    LET oldKey == command.keys[1]
        newKey == command.keys[2]
    IN  IF oldKey \notin DOMAIN m THEN Handled(m, Resolved("number", 0, 1))
        ELSE move(oldKey, newKey, m, t)

\* RENAMENX without its test of newKey
RENAMENXNoTest(command, m, t) == RENAME(command, m, t)

RENAMENX(command, m, t) ==
    LET oldKey == command.keys[1]
        newKey == command.keys[2]
    IN  IF oldKey \notin DOMAIN m THEN Handled(m, Resolved("number", 0, 1))
        ELSE IF newKey \in DOMAIN m THEN Handled(m, Resolved("number", 0, 1))
        ELSE move(oldKey, newKey, m, t)

\* globalMap.keys() is this.map.keys(): the iterator of the Map's keys, one
\* object, cast to the key type; String(iterator) is its text for a test
MapIterator(m) == [kind |-> "Map Iterator", over |-> DOMAIN m]
IteratorText ==
    <<"[", "o", "b", "j", "e", "c", "t", " ", "M", "a", "p", " ",
      "I", "t", "e", "r", "a", "t", "o", "r", "]">>

\* pattern.split("*"): the runs of characters between the stars
starSplit(pattern) ==
    LET at == SelectSeq([i \in 1..Len(pattern) |-> i], LAMBDA i : pattern[i] = "*")
        cuts == <<0>> \o at \o <<Len(pattern) + 1>>
    IN  [n \in 1..(Len(cuts) - 1) |-> SubSeq(pattern, cuts[n] + 1, cuts[n + 1] - 1)]

\* the runs segs are found in text one after another, from position from on
RECURSIVE segmentsFrom(_, _, _)
segmentsFrom(segs, text, from) ==
    IF segs = <<>> THEN TRUE
    ELSE \E i \in from..(Len(text) + 1) :
            /\ i + Len(Head(segs)) - 1 <= Len(text)
            /\ SubSeq(text, i, i + Len(Head(segs)) - 1) = Head(segs)
            /\ segmentsFrom(Tail(segs), text, i + Len(Head(segs)))

\* new RegExp(pattern.replace(/\*/g, ".*")).test(text), for a pattern of
\* letters and stars: the expression is not anchored, it is searched for
regTest(pattern, text) == segmentsFrom(starSplit(pattern), text, 1)

\* KEYS: [keys] is an array of one element, the iterator, and filter tests
\* the text of that element; an empty pattern returns the iterator itself
KEYS(command, m, t) ==
    LET pattern == command.pattern
        keys == MapIterator(m)
    IN  IF Len(pattern) > 0
        THEN Handled(m, ResolvedArray(SelectSeq(<<keys>>, LAMBDA key : regTest(pattern, IteratorText))))
        ELSE Handled(m, ResolvedObject(keys))

\* RANDOMKEY: keys is the iterator, which has no length and no element 0:
\* keys.length is undefined, never === 0, the index is ~~NaN = 0 and
\* keys[0] is undefined
RANDOMKEY(command, m, t) ==
    LET keys == MapIterator(m)
        keysLength == UNDEFINED
        randomIndex == 0
    IN  IF keysLength = <<0>> THEN Handled(m, Resolved("null", 0, 1))
        ELSE Handled(m, Resolved("undefined", randomIndex, 1))

\* a handler that is `(args) => Promise.resolve()`
stub(command, m, t) == Handled(m, Resolved("undefined", 0, 1))

\* ---- CommandExecutor
\* the names with a handler that touches the keyspace, some of the names
\* whose handler is a stub, and names with no handler
BasicNames ==
    {"KEYS", "EXISTS", "DEL", "EXPIRE", "PEXPIRE", "TTL", "RENAME", "RENAMENX", "RANDOMKEY"}
StubNames == {"SET", "INFO"}
\* commandHandlers is an object literal: a lookup by name also finds what
\* it inherits from Object.prototype, a function ("toString") or not
\* ("__proto__")
InheritedFunctions == {"toString"}
InheritedObjects == {"__proto__"}
Unknown == {"NOSUCH", "get"}

\* this.commandHandlers[commandName]: "own" for a handler of the command
\* modules, "inherited" for a property of Object.prototype, else undefined
commandHandlers(commandName) ==
    IF commandName \in BasicNames \cup StubNames THEN "own"
    ELSE IF commandName \in InheritedFunctions \cup InheritedObjects THEN "inherited"
    ELSE "undefined"

handler(command, m, t) ==
    CASE command.name = "EXISTS" -> EXISTS(command, m, t)
      [] command.name = "DEL" -> DEL(command, m, t)
      [] command.name = "EXPIRE" -> EXPIRE(command, m, t)
      [] command.name = "PEXPIRE" -> PEXPIRE(command, m, t)
      [] command.name = "TTL" -> TTL(command, m, t)
      [] command.name = "RENAME" -> RENAME(command, m, t)
      [] command.name = "RENAMENX" -> RENAMENX(command, m, t)
      [] command.name = "KEYS" -> KEYS(command, m, t)
      [] command.name = "RANDOMKEY" -> RANDOMKEY(command, m, t)
      [] command.name \in StubNames -> stub(command, m, t)
      \* Object.prototype.toString called with no receiver
      [] command.name \in InheritedFunctions -> Handled(m, ResolvedText("[object Undefined]"))
      \* calling what is not a function
      [] command.name \in InheritedObjects -> Handled(m, Rejected("TypeError"))

\* execute(command) up to and including `await handler(args)`: the handler
\* runs synchronously inside the call, and what it throws or rejects with
\* is thrown again by the catch block
execute(command, m, t) ==
    IF commandHandlers(command.name) = "undefined"
    THEN Handled(m, Rejected("Unknown command: " \o command.name))
    ELSE handler(command, m, t)

\* the connections that submit commands
Conns == {"c1", "c2"}

NoCall == [state |-> "none"]
Call(state, command, outcome) == [state |-> state, command |-> command, outcome |-> outcome]

\* a connection calls execute: everything up to the await happens at once
ExecuteCall(c, command) ==
    /\ calls[c].state # "awaiting"
    /\ LET r == execute(command, map, now)
       IN  /\ map' = r.map
           /\ calls' = [calls EXCEPT ![c] = Call("awaiting", command, r.outcome)]
    /\ UNCHANGED <<now, ticks, written, hm_op, ssVars, setVars, rpVars, listVars, strVars>>

\* a continuation that runs the handler after the await
ExecuteSettleRunsHandler(c) ==
    /\ calls[c].state = "awaiting"
    /\ map' = execute(calls[c].command, map, now).map
    /\ calls' = [calls EXCEPT ![c] = Call("settled", calls[c].command, calls[c].outcome)]
    /\ UNCHANGED <<now, ticks, written, hm_op, started, ssVars, setVars, rpVars, listVars, strVars>>

\* the continuation after the await: the promise of execute settles as the
\* handler's promise did
ExecuteSettle(c) ==
    /\ calls[c].state = "awaiting"
    /\ calls' = [calls EXCEPT ![c] = Call("settled", calls[c].command, calls[c].outcome)]
    /\ UNCHANGED <<started, hmVars, ssVars, setVars, rpVars, listVars, strVars>>

\* a connection submits its one command while others are in flight
Submit(c, command) ==
    /\ calls[c].state = "none"
    /\ ExecuteCall(c, command)
    /\ started' = [started EXCEPT !.log = Append(@, [conn |-> c, command |-> command, at |-> now])]

\* KEYS with its pattern, a text
KeysCommand(pattern) == [name |-> "KEYS", keys |-> <<>>, num |-> <<>>, pattern |-> pattern]
Patterns == {<<>>, <<"*">>, <<"k">>, <<"j">>, <<"k", "*">>, <<"*", "j">>}

\* the commands submitted
KeyLists == {<<>>, <<"k">>, <<"j">>, <<"k", "j">>, <<"k", "k">>}
KeyPairs == {<<"k", "j">>, <<"j", "k">>, <<"k", "k">>}
Numerals == {<<"0">>, <<"1">>}
Commands ==
    {Command(name, keys, <<>>) : name \in {"EXISTS", "DEL"}, keys \in KeyLists}
        \cup {Command(name, <<key>>, num) :
                name \in {"EXPIRE", "PEXPIRE"}, key \in Keys, num \in Numerals}
        \cup {Command("TTL", <<key>>, <<>>) : key \in Keys}
        \cup {Command(name, keys, <<>>) : name \in {"RENAME", "RENAMENX"}, keys \in KeyPairs}
        \cup {KeysCommand(pattern) : pattern \in Patterns}
        \cup {Command(name, <<>>, <<>>) :
                name \in {"RANDOMKEY"} \cup StubNames \cup InheritedFunctions
                            \cup InheritedObjects \cup Unknown}

\* the keyspaces the commands start from: each key missing, or holding its
\* value with no expiry, with an expiry that has passed (the entry not yet
\* swept), or with one to come
StoredValue == [k |-> <<"v">>, j |-> <<"w">>]
Expiries == {NULL, <<StartTime - 1>>, <<StartTime + MsPerSecond>>}
Keyspaces ==
    UNION {[S -> Expiries] : S \in SUBSET Keys}
KeyspaceOf(exs) == [key \in DOMAIN exs |-> HashMapItem(StoredValue[key], exs[key])]

\* commands that read and write the same keys
ConcurrentCommands ==
    {Command("RENAME", <<"k", "j">>, <<>>), Command("RENAMENX", <<"j", "k">>, <<>>),
     Command("RENAMENX", <<"k", "j">>, <<>>), Command("DEL", <<"k", "j">>, <<>>),
     Command("DEL", <<"j">>, <<>>), Command("EXISTS", <<"k", "j">>, <<>>),
     Command("EXPIRE", <<"j">>, <<"1">>), Command("TTL", <<"j">>, <<>>),
     Command("NOSUCH", <<>>, <<>>)}

CmdInit ==
    /\ calls = [c \in Conns |-> NoCall]
    /\ started = [from |-> map, log |-> <<>>]

RespInit ==
    /\ sent = [kind |-> "none"]
    /\ wire = <<>>
    /\ rp_op = RespCall("new", UNDEFINED)

SSInit ==
    /\ root = NULL
    /\ _size = 0
    /\ cmpKind \in {"default", "custom"}
    /\ members = {}
    /\ ss_op = SSCall("new", 0, 0, UNDEFINED)

Init == SSInit /\ HMInit /\ SetInit /\ RespInit /\ CmdInit /\ ListInit /\ StrInit

\* the HashMap on its own: no SortedSet call is made
HashMapInit == HMInit /\ SSInit /\ SetInit /\ RespInit /\ CmdInit /\ ListInit /\ StrInit /\ cmpKind = "default"

\* two Sets on their own
SetSpecInit == SetInit /\ SSInit /\ HMInit /\ RespInit /\ CmdInit /\ ListInit /\ StrInit /\ cmpKind = "default"

\* the codec on its own
CodecInit == RespInit /\ SSInit /\ HMInit /\ SetInit /\ CmdInit /\ ListInit /\ StrInit /\ cmpKind = "default"

\* the command executor over a keyspace that already holds entries
CommandInit ==
    /\ \E exs \in Keyspaces : map = KeyspaceOf(exs)
    /\ now = StartTime
    /\ ticks = 0
    /\ written = EmptyMap
    /\ hm_op = HMCall("new", "", "", 0, UNDEFINED)
    /\ CmdInit /\ SSInit /\ SetInit /\ RespInit /\ ListInit /\ StrInit /\ cmpKind = "default"

\* a List on its own
ListSpecInit ==
    ListInit /\ SSInit /\ HMInit /\ SetInit /\ RespInit /\ CmdInit /\ StrInit /\ cmpKind = "default"

\* a String on its own, constructed from any of the buffers
StringInit ==
    /\ \E value \in Buffers : string = NewString(value)
    /\ string_op = StrCall("new", 0, 0, UNDEFINED)
    /\ ListInit /\ SSInit /\ HMInit /\ SetInit /\ RespInit /\ CmdInit /\ cmpKind = "default"

ListSpec == ListSpecInit /\ [][ListNext]_vars

StringSpec == StringInit /\ [][StrNext]_vars

SSNext ==
    \/ \E v \in Values : Add(v)
    \/ \E v \in Values : Delete(v)
    \/ Clear
    \/ \E v \in Values : Has(v)
    \/ \E v \in Values : Ceiling(v)
    \/ \E v \in Values : Floor(v)
    \/ \E a \in Values, b \in Values : Range(a, b)

SortedSetSpec == Init /\ [][SSNext]_vars

HMNext ==
    \/ \E key \in Keys, value \in Vals : HMSet(key, value)
    \/ \E key \in Keys, value \in Vals, ex \in SetexArgs : HMSetex(key, value, ex)
    \/ \E key \in Keys : HMGet(key)
    \/ \E key \in Keys : HMDelete(key)
    \/ \E key \in Keys, ex \in TtlArgs : HMExpireat(key, ex)
    \/ \E key \in Keys : HMHas(key)
    \/ \E key \in Keys : HMTtl(key)
    \/ \E key \in Keys : HMPersist(key)
    \/ HMValues
    \/ HMEntries
    \/ HMKeys
    \/ \E d \in TickSteps : Tick(d)

HashMapSpec == HashMapInit /\ [][HMNext]_vars

SetNext ==
    \/ \E x \in SetNames, value \in Elems : SetAdd(x, value)
    \/ \E x \in SetNames, value \in Elems : SetDelete(x, value)
    \/ \E x \in SetNames, value \in Elems : SetHas(x, value)
    \/ \E x \in SetNames : SetClear(x)
    \/ \E x \in SetNames, y \in SetNames : SetUnion(x, y)
    \/ \E x \in SetNames, y \in SetNames : SetIntersection(x, y)
    \/ \E x \in SetNames, y \in SetNames : SetDifference(x, y)
    \/ \E x \in SetNames, y \in SetNames : SetIsSubsetOf(x, y)
    \/ \E x \in SetNames, y \in SetNames : SetIsSupersetOf(x, y)
    \/ \E x \in SetNames, y \in SetNames : SetIsProperSubsetOf(x, y)

SetSpec == SetSpecInit /\ [][SetNext]_vars

RespNext ==
    \/ \E v \in Scalars \cup Arrays \cup Maps \cup {JsUndefined} \cup Errors
                    \cup Unsupported \cup Nested :
            RespSerialise(v)
    \/ \E frame \in BulkFrames \cup NumericFrames \cup ErrorFrames \cup BulkErrorFrames
                        \cup ContainerFrames :
            RespReceive(frame)
    \/ RespDeserialise

CodecSpec == CodecInit /\ [][RespNext]_vars

\* one connection submits commands, one at a time
CommandNext ==
    \/ \E command \in Commands : ExecuteCall("c1", command) /\ UNCHANGED started
    \/ ExecuteSettle("c1")

CommandSpec == CommandInit /\ [][CommandNext]_vars

\* every connection submits a command; the calls and the continuations
\* run in any order
ConcurrentNext ==
    \/ \E c \in Conns, command \in ConcurrentCommands : Submit(c, command)
    \/ \E c \in Conns : ExecuteSettle(c)

ConcurrentSpec == CommandInit /\ [][ConcurrentNext]_vars

\* ------------------------------------------------- SortedSet properties
\* the height of a subtree, counted on the tree itself (absent child: 0)
RECURSIVE TrueHeight(_)
TrueHeight(n) ==
    IF n = NULL THEN 0 ELSE 1 + Max(TrueHeight(LeftOf(n)), TrueHeight(RightOf(n)))

Abs(x) == IF x < 0 THEN -x ELSE x

RECURSIVE EveryNodeAVL(_)
EveryNodeAVL(n) ==
    \/ n = NULL
    \/ /\ HeightOf(n) = 1 + Max(TrueHeight(LeftOf(n)), TrueHeight(RightOf(n)))
       /\ Abs(TrueHeight(LeftOf(n)) - TrueHeight(RightOf(n))) <= 1
       /\ EveryNodeAVL(LeftOf(n))
       /\ EveryNodeAVL(RightOf(n))

RECURSIVE NodeValues(_)
NodeValues(n) ==
    IF n = NULL THEN {} ELSE {ValueOf(n)} \cup NodeValues(LeftOf(n)) \cup NodeValues(RightOf(n))

RECURSIVE NodeCount(_)
NodeCount(n) == IF n = NULL THEN 0 ELSE 1 + NodeCount(LeftOf(n)) + NodeCount(RightOf(n))

\* the elements stored in the tree
Stored == NodeValues(root)

StrictlyAscending(seq) ==
    \A i \in DOMAIN seq : \A j \in DOMAIN seq : i < j => comparator(seq[i], seq[j]) < 0

SeqElems(seq) == {seq[i] : i \in DOMAIN seq}

\* C1: after every add, delete or clear, every node's stored height is
\* 1 + max(height(left), height(right)) and its two subtrees' heights differ
\* by at most 1.
C1_AVLInvariant == EveryNodeAVL(root)

\* a delete removed an element from a tree that still has height 3
C1_Witness ==
    /\ ss_op.name = "delete"
    /\ ss_op.ret = TRUE
    /\ root # NULL
    /\ HeightOf(root) >= 3

\* C2: the in-order traversal of values()/toArray() is strictly ascending
\* under the comparator (a valid search tree, no two keys comparing equal).
C2_InOrderAscending ==
    /\ StrictlyAscending(toArray)
    /\ Len(toArray) = NodeCount(root)

\* a delete under the custom comparator that left four or more elements
C2_Witness ==
    /\ ss_op.name = "delete"
    /\ ss_op.ret = TRUE
    /\ Len(toArray) >= 4
    /\ cmpKind = "custom"

\* C3: add(x) when a key equal to x is stored returns false and changes
\* neither size, tree shape, heights nor order; add(x) of an absent x grows
\* size by 1 and stores x, so adding x twice grows size by 1, not 2.
C3_AddExistingNoop ==
    [][ss_op'.name = "add" =>
          LET x == ss_op'.a IN
          IF \E y \in Stored : comparator(x, y) = 0
          THEN ss_op'.ret = FALSE /\ root' = root /\ _size' = _size
          ELSE ss_op'.ret = TRUE /\ _size' = _size + 1
               /\ \E y \in NodeValues(root') : comparator(x, y) = 0]_vars

\* the second add of a stored value, in a set of three
C3_Witness ==
    /\ ss_op.name = "add"
    /\ ss_op.ret = FALSE
    /\ _size = 3

\* what has, size and toArray show of the set
SetView ==
    /\ \A v \in Values : has(v) <=> v \in members
    /\ size = Cardinality(members)
    /\ SeqElems(toArray) = members
    /\ Len(toArray) = Cardinality(members)

\* C4: the SortedSet refines a mathematical set: has, size and toArray agree
\* with the values added and not since deleted or cleared; add returns true
\* iff the value was absent, delete returns true iff it was present, and a
\* delete of an absent value changes nothing.
C4_RefinesSet ==
    /\ []SetView
    /\ [][/\ ss_op'.name = "add" => ss_op'.ret = (ss_op'.a \notin members)
          /\ ss_op'.name = "delete" =>
                /\ ss_op'.ret = (ss_op'.a \in members)
                /\ ss_op'.a \notin members => root' = root /\ _size' = _size]_vars

\* the root, which has two children, has just been deleted
C4_Witness ==
    /\ ss_op.name = "delete"
    /\ ss_op.ret = TRUE
    /\ _size >= 4
    /\ LeftOf(root) # NULL
    /\ RightOf(root) # NULL
    /\ comparator(ss_op.a, toArray[1]) > 0
    /\ comparator(ss_op.a, toArray[Len(toArray)]) < 0

\* the least (greatest) element of S under the comparator, as a query result
LeastOf(S) == IF S = {} THEN UNDEFINED
              ELSE <<CHOOSE x \in S : \A y \in S : comparator(x, y) <= 0>>
GreatestOf(S) == IF S = {} THEN UNDEFINED
                 ELSE <<CHOOSE x \in S : \A y \in S : comparator(x, y) >= 0>>

\* C5: ceiling(v) is the least stored element >= v and floor(v) the greatest
\* stored element <= v under the comparator; each is undefined exactly when
\* there is no such element.
C5_CeilingFloor ==
    /\ ss_op.name = "ceiling" =>
          ss_op.ret = LeastOf({x \in Stored : comparator(x, ss_op.a) >= 0})
    /\ ss_op.name = "floor" =>
          ss_op.ret = GreatestOf({x \in Stored : comparator(x, ss_op.a) <= 0})

\* ceiling of a probe that is not stored, between two stored elements
C5_Witness ==
    /\ ss_op.name = "ceiling"
    /\ ss_op.ret # UNDEFINED
    /\ ss_op.a \notin Stored
    /\ \E x \in Stored : comparator(x, ss_op.a) < 0
    /\ _size >= 3

\* C6: range(from, to) returns in ascending order exactly the stored x with
\* from <= x <= to (both inclusive), nothing when from > to, and leaves the
\* set as it was.
C6_RangeInclusive ==
    [][ss_op'.name = "range" =>
          LET from == ss_op'.a
              to == ss_op'.b
              ret == ss_op'.ret
          IN  /\ StrictlyAscending(ret)
              /\ Len(ret) = Cardinality(SeqElems(ret))
              /\ SeqElems(ret) =
                    {x \in Stored : comparator(from, x) <= 0 /\ comparator(x, to) <= 0}
              /\ comparator(from, to) > 0 => ret = <<>>
              /\ root' = root
              /\ _size' = _size]_vars

\* a range whose two bounds are both stored and part of the result
C6_Witness ==
    /\ ss_op.name = "range"
    /\ Len(ss_op.ret) >= 3
    /\ ss_op.ret[1] = ss_op.a
    /\ ss_op.ret[Len(ss_op.ret)] = ss_op.b
    /\ Len(ss_op.ret) < _size

\* --------------------------------------------------- HashMap properties
\* the entries of m other than key's
Others(m, key) == [k \in DOMAIN m \ {key} |-> m[k]]

\* C7: get(key) returns null exactly when the key is missing or its expiry
\* is <= now, and then the entry is gone from the table; otherwise it returns
\* the stored value and removes nothing.
C7_GetAbsentIffExpired ==
    [][hm_op'.name = "get" =>
          LET key == hm_op'.key
              absent == \/ key \notin DOMAIN map
                        \/ map[key].ex # NULL /\ map[key].ex[1] <= now
          IN  IF absent
              THEN /\ hm_op'.ret = NULL
                   /\ key \notin DOMAIN map'
                   /\ Others(map', key) = Others(map, key)
              ELSE /\ hm_op'.ret = map[key].value
                   /\ map' = map]_vars

\* C8: after setex(k, v, 0), a get(k) at any later time returns null.
C8_SetexZeroExpires ==
    (/\ hm_op.name = "get"
     /\ hm_op.key \in DOMAIN written
     /\ written[hm_op.key].name = "setex"
     /\ written[hm_op.key].ttl = 0
     /\ now > written[hm_op.key].at)
    => hm_op.ret = NULL

\* C9: setex(key, value, ttlSeconds) at time now stores the entry with
\* expiry now + ttlSeconds*1000; get(key) returns the value before that
\* instant and null after it.
C9_SetexExpiry ==
    /\ [][hm_op'.name = "setex" =>
            map' = MapSet(map, hm_op'.key,
                          HashMapItem(hm_op'.value, <<now + hm_op'.ex * MsPerSecond>>))]_vars
    /\ []((/\ hm_op.name = "get"
           /\ hm_op.key \in DOMAIN written
           /\ written[hm_op.key].name = "setex")
          => LET w == written[hm_op.key]
                 expiry == w.at + w.ttl * MsPerSecond
             IN  /\ now < expiry => hm_op.ret = w.value
                 /\ now > expiry => hm_op.ret = NULL)

\* C10: expireat(key, ttlSeconds) at time now on an existing entry sets its
\* expiry to now + ttlSeconds*1000 and changes neither its value nor another
\* entry; get(key) returns the value before that instant and, after it,
\* returns null and removes the entry.
C10_ExpireatExpiry ==
    /\ [][(hm_op'.name = "expireat" /\ hm_op'.key \in DOMAIN map) =>
            map' = MapSet(map, hm_op'.key,
                          HashMapItem(map[hm_op'.key].value,
                                      <<now + hm_op'.ex * MsPerSecond>>))]_vars
    /\ []((/\ hm_op.name = "get"
           /\ hm_op.key \in DOMAIN written
           /\ written[hm_op.key].name = "expireat")
          => LET w == written[hm_op.key]
                 expiry == w.at + w.ttl * MsPerSecond
             IN  /\ now < expiry => hm_op.ret = w.value
                 /\ now > expiry => hm_op.ret = NULL /\ hm_op.key \notin DOMAIN map)

\* C11: for an existing key, ttl(key) returns -1 if the entry has no expiry
\* and otherwise the time remaining until its expiry in seconds (the
\* remaining milliseconds converted to seconds, whichever way rounded);
\* ttl never modifies the table.
C11_TtlSeconds ==
    [][(hm_op'.name = "ttl" /\ hm_op'.key \in DOMAIN map) =>
          LET item == map[hm_op'.key]
          IN  /\ map' = map
              /\ IF item.ex = NULL THEN hm_op'.ret = -1
                 ELSE Abs(hm_op'.ret * MsPerSecond - (item.ex[1] - now)) < MsPerSecond]_vars

\* C12: whenever get(k) returns null, a has(k) issued immediately afterwards
\* returns false.
C12_HasAfterAbsentGet ==
    [][(/\ hm_op.name = "get"
        /\ hm_op.ret = NULL
        /\ hm_op'.name = "has"
        /\ hm_op'.key = hm_op.key)
       => hm_op'.ret = FALSE]_vars

\* C12 amended: whenever get(k) returns null for a key that is missing or
\* whose entry was last written with a value other than null, a has(k) issued
\* immediately afterwards returns false.
C12_HasAfterAbsentGetNonNull ==
    [][(/\ hm_op.name = "get"
        /\ hm_op.ret = NULL
        /\ hm_op.key \in DOMAIN written => written[hm_op.key].value # NULL
        /\ hm_op'.name = "has"
        /\ hm_op'.key = hm_op.key)
       => hm_op'.ret = FALSE]_vars

\* a get has just returned null for an entry written with a value other than
\* null and never deleted: the entry had expired, and get has swept it
C12_Witness ==
    /\ hm_op.name = "get"
    /\ hm_op.ret = NULL
    /\ hm_op.key \in DOMAIN written
    /\ written[hm_op.key].value # NULL
    /\ hm_op.key \notin DOMAIN map

\* the keys of m whose expiry has not passed at time t
Unexpired(m, t) == {k \in DOMAIN m : m[k].ex = NULL \/ m[k].ex[1] >= t}

\* m restricted to the keys in S
Restrict(m, S) == [k \in S |-> m[k]]

\* C13: values() and entries(), iterated to completion, yield exactly the
\* entries whose expiry has not passed, each once with its stored value, and
\* remove every expired entry while leaving the others untouched; keys()
\* lists every key in the table, expired or not, and removes nothing.
C13_IterationSweep ==
    [][LET live == Unexpired(map, now)
       IN  /\ hm_op'.name = "values" =>
                /\ \E o \in Orders(live) :
                       hm_op'.ret = [i \in DOMAIN o |-> map[o[i]].value]
                /\ map' = Restrict(map, live)
           /\ hm_op'.name = "entries" =>
                /\ \E o \in Orders(live) :
                       hm_op'.ret = [i \in DOMAIN o |-> <<o[i], map[o[i]].value>>]
                /\ map' = Restrict(map, live)
           /\ hm_op'.name = "keys" =>
                /\ hm_op'.ret \in Orders(DOMAIN map)
                /\ map' = map]_vars

\* C14: set(key, value) stores the value with no expiry whatever the key held
\* before; persist(key) on an existing entry clears its expiry, keeps its
\* value and returns true, and on an absent key returns false and changes
\* nothing; after either, get(key) returns the value at every later time
\* until the key is next written, deleted or given an expiry.
C14_SetPersistNoExpiry ==
    /\ [][/\ hm_op'.name = "set" =>
               map' = MapSet(map, hm_op'.key, HashMapItem(hm_op'.value, NULL))
          /\ hm_op'.name = "persist" =>
               IF hm_op'.key \in DOMAIN map
               THEN /\ hm_op'.ret = TRUE
                    /\ map' = MapSet(map, hm_op'.key,
                                      HashMapItem(map[hm_op'.key].value, NULL))
               ELSE /\ hm_op'.ret = FALSE
                    /\ map' = map]_vars
    /\ []((/\ hm_op.name = "get"
           /\ hm_op.key \in DOMAIN written
           /\ written[hm_op.key].name \in {"set", "persist"})
          => /\ hm_op.ret = written[hm_op.key].value
             /\ hm_op.key \in DOMAIN map
             /\ map[hm_op.key] = HashMapItem(written[hm_op.key].value, NULL))

\* a get at a later time returns the value of an entry that persist, called
\* while the key held an expiry that has since passed, made permanent
C14_Witness ==
    /\ hm_op.name = "get"
    /\ hm_op.key \in DOMAIN written
    /\ written[hm_op.key].name = "persist"
    /\ now > written[hm_op.key].at
    /\ hm_op.ret = <<"v">>

\* ------------------------------------------------------- Set properties
\* the values a Set holds: the keys of its table
SetElems(S) == {S.map[i][1] : i \in DOMAIN S.map}

\* C15: after any sequence of add, delete and clear, a Set's size counter
\* equals the number of keys in its backing table, which equals the number of
\* distinct values added and not since deleted; the counter is never
\* negative, and add and delete change it only when they return true.
C15_SizeCounter ==
    /\ [](\A x \in SetNames :
            /\ sets[x]._size = Len(sets[x].map)
            /\ Len(sets[x].map) = Cardinality(added[x])
            /\ SetElems(sets[x]) = added[x]
            /\ sets[x]._size >= 0)
    /\ [][set_op'.name \in {"add", "delete"} =>
            (sets'[set_op'.on]._size # sets[set_op'.on]._size => set_op'.ret = TRUE)]_vars

\* a delete has returned true on a Set that still holds a value, while the
\* other Set holds a different number of values
C15_Witness ==
    /\ set_op.name = "delete"
    /\ set_op.ret = TRUE
    /\ sets[set_op.on]._size = 1
    /\ \E y \in SetNames : sets[y]._size = 2

\* C16: union, intersection and difference each return a Set holding exactly
\* the elements in A or B, in both, and in A but not B, with size equal to that
\* number of elements, and leave A and B unchanged; intersection gives the
\* same elements whichever operand is the smaller.
C16_SetAlgebraResults ==
    [][set_op'.name \in {"union", "intersection", "difference"} =>
          LET A == sets[set_op'.on]
              B == sets[set_op'.arg]
              R == set_op'.ret
              expected == CASE set_op'.name = "union" -> SetElems(A) \cup SetElems(B)
                            [] set_op'.name = "intersection" -> SetElems(A) \cap SetElems(B)
                            [] set_op'.name = "difference" -> SetElems(A) \ SetElems(B)
          IN  /\ SetElems(R) = expected
              /\ R._size = Cardinality(expected)
              /\ Len(R.map) = R._size
              /\ sets' = sets
              /\ set_op'.name = "intersection" =>
                   SetElems(R) = SetElems(intersection(B, A))]_vars

\* an intersection called on the larger Set (so the operands are swapped)
\* has returned some but not all of its elements
C16_Witness ==
    /\ set_op.name = "intersection"
    /\ sets[set_op.on]._size > sets[set_op.arg]._size
    /\ set_op.ret._size >= 1
    /\ set_op.ret._size < sets[set_op.on]._size

\* C17: for all Sets A and B, |A.union(B)| = |A| + |B| - |A.intersection(B)|;
\* A.difference(B).intersection(B) is empty; A.isSubsetOf(A.union(B)); and
\* A.isProperSubsetOf(B) is false when A and B hold the same elements.
C17_SetLaws ==
    \A x \in SetNames, y \in SetNames :
        LET A == sets[x]
            B == sets[y]
        IN  /\ union(A, B)._size = A._size + B._size - intersection(A, B)._size
            /\ intersection(difference(A, B), B) = NewSet
            /\ isSubsetOf(A, union(A, B))
            /\ SetElems(A) = SetElems(B) => ~isProperSubsetOf(A, B)
            /\ (set_op.name = "isProperSubsetOf" /\ set_op.on = x /\ set_op.arg = y
                  /\ SetElems(A) = SetElems(B)) => set_op.ret = FALSE

\* isProperSubsetOf has returned false on two Sets holding the same two or
\* more elements inserted in different orders
C17_Witness ==
    /\ set_op.name = "isProperSubsetOf"
    /\ set_op.on # set_op.arg
    /\ SetElems(sets[set_op.on]) = SetElems(sets[set_op.arg])
    /\ sets[set_op.on].map # sets[set_op.arg].map
    /\ set_op.ret = FALSE

\* ----------------------------------------------------- codec properties
\* C18: for every supported value v (strings, the empty string included,
\* numbers, booleans, arrays and Maps, nested), deserialiser(serialise(v))
\* returns a value with v's content.
C18_RoundTrip ==
    (rp_op.name = "deserialiser" /\ sent.kind = "value")
    => (~rp_op.ret.thrown /\ rp_op.ret.val = sent.v)

\* C19: a Bulk String frame whose declared length differs from the length of
\* the segment that follows, or that has no following segment, fails to
\* decode; when the lengths agree the segment is returned; a declared length
\* of -1 decodes to null.
C19_BulkStringLength ==
    (rp_op.name = "deserialiser" /\ sent.kind = "bulk")
    => IF sent.len = -1 THEN ~rp_op.ret.thrown /\ rp_op.ret.val = JsNull
       ELSE IF sent.seg = <<>> \/ length(sent.seg[1]) # sent.len THEN rp_op.ret.thrown
       ELSE ~rp_op.ret.thrown /\ rp_op.ret.val = JsString(sent.seg[1])

\* base-10 numeric text: an optional sign and digits, with (for a Double) an
\* optional point and digits, and nothing else
AllDigits(str) == \A i \in DOMAIN str : IsDigit(str[i])
WellFormed(tag, text) ==
    LET body == Unsigned(text)
        int == DigitsPrefix(body)
        after == SubSeq(body, Len(int) + 1, Len(body))
    IN  IF tag = RESP.INTEGER THEN body # <<>> /\ AllDigits(body)
        ELSE \/ int # <<>> /\ after = <<>>
             \/ after # <<>> /\ Head(after) = "." /\ AllDigits(Tail(after))
                   /\ Len(int) + Len(after) > 1

\* C20: an Integer or Double frame whose payload is not well-formed base-10
\* numeric text fails to decode: no number is returned for it.
C20_MalformedNumber ==
    (rp_op.name = "deserialiser" /\ sent.kind = "numeric"
        /\ ~WellFormed(sent.tag, sent.text))
    => rp_op.ret.thrown

\* C21: a frame tagged "-" (Error) or "!" (Bulk Error) never decodes to a
\* value, null included: the decoder throws, and the error carries the
\* frame's text (for a Bulk Error, the segment whose length was declared).
C21_ErrorFramesThrow ==
    (rp_op.name = "deserialiser" /\ sent.kind \in {"error", "bulkerror"})
    => /\ rp_op.ret.thrown
       /\ sent.kind = "error"
            => rp_op.ret.error = <<"Redis error response: ">> \o sent.text
       /\ (sent.kind = "bulkerror" /\ sent.seg # <<>> /\ length(sent.seg[1]) = sent.len)
            => rp_op.ret.error = sent.seg[1]

\* the last element of the text on the wire is the terminator
Terminated(text) == text # <<>> /\ text[Len(text)] = RESP.CRLF

\* the Bulk Error that reports a value of an unsupported type
UnsupportedReply(v) ==
    <<RESP.BULK_ERROR>> \o ToDigits(Len(UnsupportedDataType) + Len(typeof(v)))
        \o <<RESP.CRLF>> \o UnsupportedDataType \o typeof(v) \o <<RESP.CRLF>>

\* C22: serialise returns an encoded text for every value, unsupported
\* values and values nested in arrays and Maps included; an unsupported
\* value is encoded as the Bulk Error "Unsupported data type: <typeof>",
\* also where it is an element of an array or a value of a Map.
C22_SerialiseTotal ==
    rp_op.name = "serialise"
    => /\ ~rp_op.ret.thrown
       /\ rp_op.ret.val = wire
       /\ Terminated(wire)
       /\ sent.v \in Unsupported => wire = UnsupportedReply(sent.v)
       /\ \A x \in Unsupported :
            /\ sent.v = JsArray(<<x>>)
                => wire = <<RESP.ARRAY, "1", RESP.CRLF>> \o UnsupportedReply(x) \o <<RESP.CRLF>>
            /\ sent.v = JsMap(<<<<JsString(<<"a">>), x>>>>)
                => wire = <<RESP.MAP, "1", RESP.CRLF>> \o serialiseBulkString(<<"a">>)
                            \o UnsupportedReply(x) \o <<RESP.CRLF>>

C22_Witness ==
    /\ rp_op.name = "serialise"
    /\ sent.v = JsArray(<<JsSymbol>>)
    /\ wire[4] = RESP.BULK_ERROR

\* C23: an Error whose message has fewer than 10 characters is encoded as
\* exactly "-Unknown error\r\n"; one whose message has 10 characters or
\* more is encoded as a Bulk Error: "!", the byte length of the message, the
\* terminator, the message, the terminator.
C23_ErrorEncoding ==
    (rp_op.name = "serialise" /\ sent.v.t = "error")
    => IF length(sent.v.message) < 10
       THEN wire = <<RESP.ERROR>> \o UnknownError \o <<RESP.CRLF>>
       ELSE wire = <<RESP.BULK_ERROR>> \o ToDigits(byteLength(sent.v.message))
                       \o <<RESP.CRLF>> \o sent.v.message \o <<RESP.CRLF>>

C23_Witness ==
    /\ rp_op.name = "serialise"
    /\ sent.v = JsError(Repeat("a", 10))
    /\ wire[1] = RESP.BULK_ERROR

\* ------------------------------------------------ CommandExecutor properties
\* a command module defines a handler under this name
HasHandler(name) == name \in BasicNames \cup StubNames

\* c calls execute in this step
Calls(c) == calls[c].state # "awaiting" /\ calls'[c].state = "awaiting"

\* C24: execute with a command name that has no handler fails with the
\* error "Unknown command: <name>" and leaves the keyspace unchanged (no
\* handler has run); nothing else is changed, so later commands run as
\* before.
C24_UnknownCommand ==
    [][\A c \in Conns :
        (Calls(c) /\ ~HasHandler(calls'[c].command.name))
        => /\ calls'[c].outcome = Rejected("Unknown command: " \o calls'[c].command.name)
           /\ map' = map]_vars

\* C25: when the handler of a command fails, execute does not fail: its
\* result is a value (an error value that can be encoded).
C25_HandlerFailureConverted ==
    \A c \in Conns :
        (calls[c].state = "settled" /\ HasHandler(calls[c].command.name))
        => calls[c].outcome.state = "resolved"

\* the commands of log run one at a time from the keyspace m, each at the
\* time of its call: the keyspace left and the outcomes
RECURSIVE OneAtATime(_, _)
OneAtATime(log, m) ==
    IF log = <<>> THEN [map |-> m, outcomes |-> <<>>]
    ELSE LET r == execute(Head(log).command, m, Head(log).at)
             rest == OneAtATime(Tail(log), r.map)
         IN  [map |-> rest.map, outcomes |-> <<r.outcome>> \o rest.outcomes]

Runs(c, name) == Calls(c) /\ calls'[c].command.name = name

\* every key other than those of keys is left as it was
OthersUnchanged(keys) ==
    \A key \in Keys \ keys :
        /\ (key \in DOMAIN map') = (key \in DOMAIN map)
        /\ key \in DOMAIN map => map'[key] = map[key]

\* C27: RENAME oldKey newKey with oldKey present and different from newKey
\* leaves newKey holding the value oldKey held, oldKey absent and every
\* other key unchanged, and returns 1; with oldKey absent it returns 0 and
\* changes nothing.
C27_RenameMoves ==
    [][\A c \in Conns : Runs(c, "RENAME") =>
        LET oldKey == calls'[c].command.keys[1]
            newKey == calls'[c].command.keys[2]
        IN  /\ (oldKey \in DOMAIN map /\ oldKey # newKey)
                => /\ newKey \in DOMAIN map'
                   /\ map'[newKey].value = map[oldKey].value
                   /\ oldKey \notin DOMAIN map'
                   /\ OthersUnchanged({oldKey, newKey})
                   /\ calls'[c].outcome = Resolved("number", 1, 1)
            /\ oldKey \notin DOMAIN map
                => /\ map' = map
                   /\ calls'[c].outcome = Resolved("number", 0, 1)]_vars

\* C28: RENAMENX oldKey newKey with newKey present returns 0 and leaves the
\* whole keyspace unchanged; it returns 1 only with oldKey present and
\* newKey absent, and then newKey holds the value oldKey held, oldKey is
\* absent and every other key is unchanged.
C28_RenamenxRefuses ==
    [][\A c \in Conns : Runs(c, "RENAMENX") =>
        LET oldKey == calls'[c].command.keys[1]
            newKey == calls'[c].command.keys[2]
            moves == oldKey \in DOMAIN map /\ newKey \notin DOMAIN map
        IN  /\ newKey \in DOMAIN map
                => /\ map' = map
                   /\ calls'[c].outcome = Resolved("number", 0, 1)
            /\ moves
                => /\ newKey \in DOMAIN map'
                   /\ map'[newKey].value = map[oldKey].value
                   /\ oldKey \notin DOMAIN map'
                   /\ OthersUnchanged({oldKey, newKey})
                   /\ calls'[c].outcome = Resolved("number", 1, 1)
            /\ ~moves
                => /\ map' = map
                   /\ calls'[c].outcome = Resolved("number", 0, 1)]_vars

\* the number argument of EXPIRE and PEXPIRE as a number
NumberOf(num) == parseInt(num).v[1]

\* C29: EXPIRE key seconds at time now on a present key sets the expiry of
\* the key to now + seconds * 1000, PEXPIRE key millis to now + millis,
\* leaving its value and every other key as they were, so that a get
\* returns the value up to that instant and absent after it; on an absent
\* key both return 0 and change nothing.
C29_ExpireSetsExpiry ==
    [][\A c \in Conns : (Runs(c, "EXPIRE") \/ Runs(c, "PEXPIRE")) =>
        LET key == calls'[c].command.keys[1]
            unit == IF calls'[c].command.name = "EXPIRE" THEN MsPerSecond ELSE 1
            at == now + NumberOf(calls'[c].command.num) * unit
        IN  /\ key \in DOMAIN map
                => /\ key \in DOMAIN map'
                   /\ map'[key] = HashMapItem(map[key].value, <<at>>)
                   /\ OthersUnchanged({key})
                   /\ globalMapGet(map', at, key).value = map[key].value
                   /\ globalMapGet(map', at + 1, key).value = NULL
            /\ key \notin DOMAIN map
                => /\ map' = map
                   /\ calls'[c].outcome = Resolved("number", 0, 1)]_vars

\* how many of the arguments keys name a key of the keyspace m
Named(keys, m) == Cardinality({i \in DOMAIN keys : keys[i] \in DOMAIN m})

\* the keys that keys names
NamedKeys(keys) == {keys[i] : i \in DOMAIN keys}

\* C30: EXISTS returns the number of its arguments that name a key present
\* in the keyspace and changes nothing; DEL removes every named key that is
\* present, returns the number of keys it removed and leaves the keys not
\* named unchanged, so that afterwards no named key is present.
C30_ExistsDelCounts ==
    [][\A c \in Conns :
        /\ Runs(c, "EXISTS")
            => /\ calls'[c].outcome = Resolved("number", Named(calls'[c].command.keys, map), 1)
               /\ map' = map
        /\ Runs(c, "DEL")
            => LET named == NamedKeys(calls'[c].command.keys)
               IN  /\ DOMAIN map' = DOMAIN map \ named
                   /\ OthersUnchanged(named)
                   /\ calls'[c].outcome =
                        Resolved("number", Cardinality(DOMAIN map \ DOMAIN map'), 1)
                   /\ calls'[c].outcome =
                        Resolved("number", Cardinality(named \cap DOMAIN map), 1)]_vars

\* DEL k k has removed the one key it names twice and returned 1, on a
\* keyspace that held another key
C30_Witness ==
    /\ calls["c1"].state = "awaiting"
    /\ calls["c1"].command = Command("DEL", <<"k", "k">>, <<>>)
    /\ calls["c1"].outcome = Resolved("number", 1, 1)
    /\ DOMAIN map = {"j"}

\* the glob pattern matches the whole of name, a star standing for any run
\* of characters
RECURSIVE GlobMatch(_, _)
GlobMatch(pattern, name) ==
    IF pattern = <<>> THEN name = <<>>
    ELSE IF Head(pattern) = "*"
         THEN \E n \in 0..Len(name) : GlobMatch(Tail(pattern), SubSeq(name, n + 1, Len(name)))
         ELSE name # <<>> /\ Head(name) = Head(pattern) /\ GlobMatch(Tail(pattern), Tail(name))

\* a key name as an element of a reply
KeyName(key) == [kind |-> "string", name |-> key]

\* C31: KEYS pattern returns the names of the keys of the keyspace that
\* match the glob pattern, each once and nothing else, and leaves the
\* keyspace unchanged.
C31_KeysMatching ==
    [][\A c \in Conns : Runs(c, "KEYS") =>
        LET matching == {key \in DOMAIN map : GlobMatch(calls'[c].command.pattern, <<key>>)}
            reply == calls'[c].outcome
        IN  /\ reply.state = "resolved"
            /\ reply.kind = "array"
            /\ Len(reply.items) = Cardinality(matching)
            /\ {reply.items[i] : i \in DOMAIN reply.items} = {KeyName(key) : key \in matching}
            /\ map' = map]_vars

\* C32: RANDOMKEY returns null on an empty keyspace and otherwise the name
\* of a key that is in the keyspace.
C32_RandomKeyExists ==
    [][\A c \in Conns : Runs(c, "RANDOMKEY") =>
        IF DOMAIN map = {}
        THEN calls'[c].outcome = Resolved("null", 0, 1)
        ELSE \E key \in DOMAIN map : calls'[c].outcome = ResolvedText(key)]_vars

\* C33: TTL key does not fail, whether or not the key is present: it
\* returns the remaining seconds when the key has an expiry and -1
\* otherwise.
C33_TtlReturnsNumber ==
    [][\A c \in Conns : Runs(c, "TTL") =>
        LET key == calls'[c].command.keys[1]
            reply == calls'[c].outcome
            expiring == key \in DOMAIN map /\ map[key].ex # NULL
        IN  /\ reply.state = "resolved"
            /\ reply.kind = "number"
            /\ expiring => reply.num * MsPerSecond = (map[key].ex[1] - now) * reply.den
            /\ ~expiring => reply = Resolved("number", -1, 1)]_vars

\* C38: a RENAME or RENAMENX that returns 1 has left newKey present and
\* holding the non-null value that oldKey held, also with oldKey = newKey
\* and with an oldKey expired but not yet swept.
C38_RenameKeepsValue ==
    [][\A c \in Conns :
        ((Runs(c, "RENAME") \/ Runs(c, "RENAMENX"))
            /\ calls'[c].outcome = Resolved("number", 1, 1))
        => LET oldKey == calls'[c].command.keys[1]
               newKey == calls'[c].command.keys[2]
           IN  /\ oldKey \in DOMAIN map
               /\ newKey \in DOMAIN map'
               /\ map'[newKey].value = map[oldKey].value
               /\ map'[newKey].value # NULL]_vars

\* ------------------------------------------------------- List properties
\* the sequence a List stands for: the values met walking from head
Contents(l) == iterate(l.heap, l.head)

\* index i of a sequence of n elements, a negative one read as n + i
Position(i, n) == IF i < 0 THEN n + i ELSE i

\* a sequence with v put at position pos (from 0), and with the element at
\* position pos taken out
InsertAt(seq, pos, v) == SubSeq(seq, 1, pos) \o <<v>> \o SubSeq(seq, pos + 1, Len(seq))
RemoveAt(seq, pos) == SubSeq(seq, 1, pos) \o SubSeq(seq, pos + 2, Len(seq))

\* the elements in order with "->" between them
RECURSIVE Joined(_)
Joined(seq) ==
    IF Len(seq) <= 1 THEN seq ELSE <<Head(seq), "->">> \o Joined(Tail(seq))

C35_OutOfRangeUnchanged ==
    [][LET elems == Contents(list)
           pos == Position(list_op'.index, Len(elems))
       IN  /\ (list_op'.name = "set" /\ pos \notin 0..Len(elems))
               => list_op'.ret = IndexOutOfBounds /\ list' = list
           /\ (list_op'.name = "get" /\ pos \notin 0..(Len(elems) - 1))
               => list_op'.ret = IndexOutOfBounds /\ list' = list
           /\ (list_op'.name = "remove" /\ pos \notin 0..(Len(elems) - 1))
               => list_op'.ret = ListReturned(UNDEFINED) /\ list' = list]_vars

\* get(2) on a List of two elements has thrown
C35_Witness ==
    /\ list_op = ListCall("get", 2, "", IndexOutOfBounds)
    /\ list._length = 2

\* C36: tail is null exactly when the List is empty and otherwise is the
\* last node reachable from head; length is the number of nodes reachable
\* from head; get(length - 1), which reads tail, returns what the walk from
\* head ends on.
C36_TailIsLast ==
    LET nodes == reach(list.heap, list.head, {})
        elems == Contents(list)
    IN  /\ (list.tail = NULL) = (list.head = NULL)
        /\ list.tail # NULL => list.tail[1] \in nodes /\ list.heap[list.tail[1]].next = NULL
        /\ list._length = Cardinality(nodes)
        /\ elems # <<>> => listGet(list, list._length - 1) = ListReturned(<<elems[Len(elems)]>>)

\* remove(-1) has taken the last of three elements, and tail was moved
C36_Witness ==
    /\ list_op = ListCall("remove", 0 - 1, "", ListReturned(UNDEFINED))
    /\ list._length = 2
    /\ Contents(list) = <<"a", "b">>

\* ----------------------------------------------------- String properties
\* the bit at a bit offset of the bytes of s
BitAt(s, offset) == bitOf(s.buffer[(offset \div BitsPerByte) + 1], offset % BitsPerByte)

\* C39: for a String of n bytes getBit and setBit accept every offset in
\* 0..8n-1 and throw "Invalid offset" for every other; setBit returns the
\* previous value of the bit, a getBit that follows returns the value
\* written, and no other bit and not the length changes.
C39_BitOffsets ==
    [][LET n == Len(string.buffer)
           offset == string_op'.offset
           valid == offset \in 0..(BitsPerByte * n - 1)
       IN  /\ (string_op'.name = "getBit" /\ valid)
               => string_op'.ret = StrReturned(BitAt(string, offset))
           /\ (string_op'.name = "setBit" /\ valid)
               => /\ string_op'.ret = StrReturned(BitAt(string, offset))
                  /\ getBit(string', offset) = StrReturned(string_op'.value)
                  /\ \A other \in 0..(BitsPerByte * n - 1) \ {offset} :
                        BitAt(string', other) = BitAt(string, other)
                  /\ string'._length = string._length
                  /\ Len(string'.buffer) = n
           /\ (string_op'.name \in {"getBit", "setBit"} /\ ~valid)
               => string_op'.ret = InvalidOffset /\ string' = string]_vars

\* ------------------------------------------------- deserialiser properties
\* how many elements an Array or Map frame declares
Declared(frame) == IF frame.tag = RESP.MAP THEN 2 * frame.count ELSE frame.count

\* C37: deserialiser returns no partially parsed result: an Array or Map
\* frame that declares more elements or pairs than the input holds fails
\* with a decode error.
C37_NoPartialParse ==
    (rp_op.name = "deserialiser" /\ sent.kind = "container" /\ Declared(sent) > sent.sent)
        => rp_op.ret.thrown

====
